---- MODULE Spec2Model ----
(***************************************************************************)
(* A model of the analysis engine of finance-analysis.                     *)
(*                                                                         *)
(* Part 1: the Lot Ledger / Holding Period analyzer                        *)
(*   (portfolio/analysis/holding_period.py, portfolio/analysis/models.py). *)
(*   One run of _process_fund_transactions over the date-ordered           *)
(*   BUY/SELL stream of ONE (fund, platform, wrapper) key.  Every          *)
(*   iteration of the SELL loop is one step.                               *)
(* Part 2: the Cross-Reference matcher                                     *)
(*   (portfolio/analysis/cross_reference.py).                              *)
(* Part 3: the Price Impact analyzer (portfolio/analysis/price_impact.py)  *)
(*   over the tables transactions, fund_ticker_mapping and price_history.  *)
(* Part 4: the Current Holdings analyzer                                   *)
(*   (portfolio/analysis/current_holdings.py) over the same tables and     *)
(*   the current-holdings snapshot.                                        *)
(* Part 5: AnalysisResult.calculate_overall_confidence (models.py).        *)
(*                                                                         *)
(* Units are counted in thousandths of a unit, so the code's float         *)
(* tolerance 0.001 is Tol = 1 and quantities at or below the tolerance     *)
(* (0 and 1) exist in the model.  Prices are whole numbers; a value        *)
(* (units * price) is therefore in thousandths as well.  Confidences are   *)
(* in hundredths (1.0 = 100, 0.7 = 70).  Dates are day ordinals.           *)
(***************************************************************************)
EXTENDS Integers, Sequences, FiniteSets, TLC

\* ------------------------------------------------------------------ bounds
\* Number of transactions of the key that are processed.
MaxTx == 4

\* Units of a transaction (thousandths): nothing, a quantity at the
\* tolerance, and quantities above it that leave 0, 1 or 3 behind.
Units == {0, 1, 2, 5}
BuyPrices == {10, 11}
SellPrices == {12}
\* Days between one transaction and the next (the stream is date-ordered).
DayGaps == {0, 200}

\* The same machine driven with few unit choices and many dates: gaps whose
\* sums land on both sides of every category boundary (29, 30 = 29 + 1,
\* 89, 90, 364, 365).
CatBuyUnits == {1, 5}
CatSellUnits == {7}
CatGaps == {0, 1, 29, 89, 364}

\* ------------------------------------------------------- program constants
\* models.py:85 and holding_period.py:132,174: 0.001 units.
Tol == 1
\* holding_period.py:165 and :197: confidence 1.0 and 0.7, in hundredths.
ConfFull == 100
ConfUnmatched == 70

\* The key whose transactions are processed (FundKey, holding_period.py:24).
fund_key == [fund_name |-> "F", platform |-> "P", tax_wrapper |-> "ISA"]

VARIABLES
  pc,             \* "next": between two transactions; "while": in the SELL loop
  processed,      \* number of transactions taken from the stream so far
  tx,             \* the transaction being processed (date kept for the next one)
  lots,           \* every Lot created, oldest first
  head,           \* number of lots popped from the front of lot_queue
  units_to_sell,  \* the local of the SELL loop
  results,        \* list[HoldingPeriodResult]
  issues,         \* list of data-quality issues
  ghost,          \* history kept for the properties only (not program state)
  xpc,            \* cross-reference: "idle", "start" (rows read) or "done"
  funds,          \* the rows _get_fund_identifiers returned
  all_matches,    \* analyze's list of matches, in the order found
  verified,       \* returned: the matches with confidence >= 0.90
  unsure,         \* returned: the other matches
  funds_without_ids, \* returned: names of funds with no identifier
  tx_table,       \* table transactions, in rowid order
  ftm_table,      \* table fund_ticker_mapping: rows [fund_name, ticker]
  price_history,  \* table price_history: rows [ticker, date, close_price]
  ipc,            \* price impact: "idle", "start" or "done"
  impact_rows,    \* analyze's local `transactions` (the joined rows)
  impact_results, \* list[PriceImpactResult]; impact_results[k] is of impact_rows[k]
  missing_count,  \* returned: transactions_missing_prices
  hpc,            \* current holdings: "idle", "start" or "done"
  holdings_data,  \* current_holdings.json: per ticker, fund_name and holdings
  holding_results,  \* list[HoldingAnalysis], one per snapshot entry visited
  holdings_with_prices,     \* summary["holdings_with_prices"]
  holdings_without_prices,  \* summary["holdings_without_prices"]
  cost_ghost,     \* per result: what _get_cost_basis found (properties only)
  cpc,            \* overall confidence: "idle", "start" or "done"
  analysis_result,     \* AnalysisResult: the components' result lists
  overall_confidence,  \* AnalysisResult.overall_confidence, a fraction
  rpc,                 \* run_analysis: "idle", "start", the analyzer about to
                       \* run, "confidence", "returned" or "raised"
  conn_state,          \* per connection: "none", "open" or "closed"
  run_log,             \* the analyze() calls started and returned, in order
  run_current_holdings,  \* result.current_holdings, the objects themselves
  returned_holdings,   \* what CurrentHoldingsAnalyzer.analyze returned
                       \* (properties only)
  mpc,                 \* _calculate_mwr: "idle", "start" or "done"
  mwr_in,              \* its arguments
  mwr_out,             \* how it ended, and the solvers it called
  spc,                 \* TransactionDatabase: "idle" or "open"
  stored_tx,           \* the rows of the transactions table, in id order
  store_last,          \* the last insert call: its argument, the table
                       \* before it and what it returned (properties only)
  store_prev,          \* the call before that one (properties only)
  upc,                 \* PriceUpdater: "idle" or "connected"
  dry_run,             \* PriceUpdater.dry_run
  update_last,         \* the last updater call and what it returned
                       \* (properties only)
  ph_initial,          \* price_history when the updater connected
                       \* (properties only)
  tpc,                 \* _calculate_twr: "idle", "start", "loop" or "done"
  twr_in,              \* its arguments
  twr_i,               \* transactions the loop has walked
  twr_loop,            \* units_held, prev_value and sub_period_returns
  twr_out,             \* the value returned
  ppc,                 \* PerformanceAnalyzer.analyze: "idle", "start", "done"
  perf_in,             \* the snapshot entries with their prices and history
  analyze_results,     \* the HoldingPerformance list returned
  wrapper_summary      \* the wrapper aggregates returned

fifoVars == <<pc, processed, tx, lots, head, units_to_sell, results, issues, ghost>>

xrefVars == <<xpc, funds, all_matches, verified, unsure, funds_without_ids>>

dbVars == <<tx_table, ftm_table, price_history>>

impactVars == <<ipc, impact_rows, impact_results, missing_count>>

\* What the Holding Period analyzer leaves alone, and what the
\* Cross-Reference analyzer leaves alone.
holdingsVars == <<hpc, holdings_data, holding_results, holdings_with_prices,
                  holdings_without_prices, cost_ghost>>

confVars == <<cpc, analysis_result, overall_confidence>>

runVars == <<rpc, conn_state, run_log, run_current_holdings, returned_holdings>>

mwrVars == <<mpc, mwr_in, mwr_out>>

\* The parts after the overall confidence.
storeVars == <<spc, stored_tx, store_last, store_prev>>

updVars == <<upc, dry_run, update_last, ph_initial>>

twrVars == <<tpc, twr_in, twr_i, twr_loop, twr_out>>

perfVars == <<ppc, perf_in, analyze_results, wrapper_summary>>

laterVars == <<runVars, mwrVars, storeVars, updVars, twrVars, perfVars>>

\* The analyzers' parts.
analyzerVars == <<fifoVars, xrefVars, dbVars, impactVars, holdingsVars, confVars>>

notRunVars == <<analyzerVars, mwrVars, storeVars, updVars, twrVars,
    perfVars>>

notMwrVars == <<analyzerVars, runVars, storeVars, updVars, twrVars,
    perfVars>>

notStoreVars == <<analyzerVars, runVars, mwrVars, updVars, twrVars,
    perfVars>>

notTwrVars == <<analyzerVars, runVars, mwrVars, storeVars, updVars, perfVars>>

notPerfVars == <<analyzerVars, runVars, mwrVars, storeVars, updVars, twrVars>>

\* The updater writes price_history.
notUpdVars ==
  <<fifoVars, xrefVars, tx_table, ftm_table, impactVars, holdingsVars, confVars,
    runVars, mwrVars, storeVars, twrVars,
    perfVars>>

notFifoVars == <<xrefVars, dbVars, impactVars, holdingsVars, confVars, laterVars>>

notXrefVars == <<fifoVars, dbVars, impactVars, holdingsVars, confVars, laterVars>>

\* ------------------------------------------------------------------ helpers
Min(a, b) == IF a <= b THEN a ELSE b

RECURSIVE SumRemaining(_, _, _)
\* Sum of remaining_units of lots[from..to].
SumRemaining(ls, from, to) ==
  IF from > to THEN 0
  ELSE ls[from].remaining_units + SumRemaining(ls, from + 1, to)

RECURSIVE SumSold(_, _, _)
\* Sum of units_sold of results[from..to].
SumSold(rs, from, to) ==
  IF from > to THEN 0
  ELSE rs[from].units_sold + SumSold(rs, from + 1, to)

\* ----------------------------------------------------------- models.py
\* A mutant of from_days: the first boundary taken with <=.
from_days_le(days) ==
  IF days <= 30 THEN "VERY_SHORT_TERM"
  ELSE IF days < 90 THEN "SHORT_TERM"
  ELSE IF days < 365 THEN "MEDIUM_TERM"
  ELSE "LONG_TERM"

\* HoldingPeriodCategory.from_days
from_days(days) ==
  IF days < 30 THEN "VERY_SHORT_TERM"
  ELSE IF days < 90 THEN "SHORT_TERM"
  ELSE IF days < 365 THEN "MEDIUM_TERM"
  ELSE "LONG_TERM"

\* Lot.is_exhausted
is_exhausted(lot) == lot.remaining_units <= Tol

\* A mutant of consume: the lot is charged the whole request (no min).
consume_no_min(lot, uts) ==
  [lot |-> [lot EXCEPT !.remaining_units = @ - uts], consumed |-> uts]

\* A mutant of consume: the units are reported but not taken from the lot.
consume_no_update(lot, uts) ==
  [lot |-> lot, consumed |-> Min(uts, lot.remaining_units)]

\* Lot.consume: the lot after the call and the value returned.
consume(lot, uts) ==
  LET consumed == Min(uts, lot.remaining_units)
  IN [lot |-> [lot EXCEPT !.remaining_units = @ - consumed],
      consumed |-> consumed]

\* ------------------------------------------------------ holding_period.py
\* lot_queue: the lots not yet popped.
lot_queue == SubSeq(lots, head + 1, Len(lots))

\* A mutant of front: the youngest lot is taken (LIFO).
front_last(h, ls) == Len(ls)

\* lot_queue[0] as an index into lots.
front(h, ls) == h + 1

\* A mutant of new_result: the gain is computed from the sell price alone.
new_result_no_cost(lot, consumed, sell_date, sell_price) ==
  [buy_date |-> lot.buy_date, sell_date |-> sell_date,
   holding_days |-> sell_date - lot.buy_date, units_sold |-> consumed,
   buy_price |-> lot.price_per_unit, sell_price |-> sell_price,
   buy_value |-> consumed * lot.price_per_unit,
   sell_value |-> consumed * sell_price,
   gain_loss |-> consumed * sell_price,
   category |-> from_days(sell_date - lot.buy_date),
   confidence |-> ConfFull]

\* The HoldingPeriodResult of one consumption (gain_loss_pct, a float ratio
\* no property reads, and the key's constant fields are left out).
new_result(lot, consumed, sell_date, sell_price) ==
  LET holding_days == sell_date - lot.buy_date
      buy_value == consumed * lot.price_per_unit
      sell_value == consumed * sell_price
  IN [buy_date |-> lot.buy_date, sell_date |-> sell_date,
      holding_days |-> holding_days, units_sold |-> consumed,
      buy_price |-> lot.price_per_unit, sell_price |-> sell_price,
      buy_value |-> buy_value, sell_value |-> sell_value,
      gain_loss |-> sell_value - buy_value,
      category |-> from_days(holding_days),
      confidence |-> ConfFull]

\* results[-1] rebuilt with confidence 0.7, every other field copied.
lower_confidence(r) == [r EXCEPT !.confidence = ConfUnmatched]

\* Whether the unmatched SELL rewrites results[-1].
marks_last(rs, sell_date) ==
  Len(rs) > 0 /\ rs[Len(rs)].sell_date = sell_date

NoTx == [transaction_type |-> "NONE", date |-> 0, units |-> 0, price_per_unit |-> 0]

NoGhost ==
  [bought |-> 0, sold |-> 0, overdrawn |-> FALSE,
   origin |-> << >>, issue_tx |-> << >>,
   pre_results |-> << >>, pre_issues |-> << >>, pre_lots |-> << >>,
   pre_head |-> 0, history |-> << >>]

FifoInit ==
  /\ pc = "next"
  /\ processed = 0
  /\ tx = NoTx
  /\ lots = << >>
  /\ head = 0
  /\ units_to_sell = 0
  /\ results = << >>
  /\ issues = << >>
  /\ ghost = NoGhost

\* for tx in transactions, the BUY branch: a new Lot joins the queue.
Buy(u, p, gap) ==
  /\ pc = "next"
  /\ processed < MaxTx
  /\ LET tx_date == tx.date + gap
     IN /\ tx' = [transaction_type |-> "BUY", date |-> tx_date,
                  units |-> u, price_per_unit |-> p]
        /\ lots' = Append(lots, [buy_date |-> tx_date, units |-> u,
                                 price_per_unit |-> p, remaining_units |-> u,
                                 transaction_id |-> processed + 1])
  /\ processed' = processed + 1
  /\ ghost' = [ghost EXCEPT !.bought = @ + u, !.history = Append(@, tx')]
  /\ UNCHANGED <<pc, head, units_to_sell, results, issues>>
  /\ UNCHANGED notFifoVars

\* The SELL branch up to the loop: units_to_sell, sell_price, sell_date.
SellBegin(u, p, gap) ==
  /\ pc = "next"
  /\ processed < MaxTx
  /\ tx' = [transaction_type |-> "SELL", date |-> tx.date + gap,
            units |-> u, price_per_unit |-> p]
  /\ units_to_sell' = u
  /\ processed' = processed + 1
  /\ pc' = "while"
  /\ ghost' = [ghost EXCEPT
                 !.sold = @ + u,
                 !.overdrawn = @ \/ u > SumRemaining(lots, head + 1, Len(lots)),
                 !.pre_results = results,
                 !.pre_issues = issues,
                 !.pre_lots = lots,
                 !.pre_head = head,
                 !.history = Append(@, tx')]
  /\ UNCHANGED <<lots, head, results, issues>>
  /\ UNCHANGED notFifoVars

\* One iteration that finds the front lot exhausted: pop and continue.
PopExhausted ==
  /\ pc = "while"
  /\ units_to_sell > Tol /\ Len(lot_queue) > 0
  /\ is_exhausted(lots[front(head, lots)])
  /\ head' = head + 1
  /\ UNCHANGED <<pc, processed, tx, lots, units_to_sell, results, issues, ghost>>
  /\ UNCHANGED notFifoVars

\* One iteration that consumes from the front lot and emits a result.
ConsumeLot ==
  /\ pc = "while"
  /\ units_to_sell > Tol /\ Len(lot_queue) > 0
  /\ ~is_exhausted(lots[front(head, lots)])
  /\ LET i == front(head, lots)
         c == consume(lots[i], units_to_sell)
     IN /\ lots' = [lots EXCEPT ![i] = c.lot]
        /\ units_to_sell' = units_to_sell - c.consumed
        /\ results' = Append(results,
                             new_result(c.lot, c.consumed, tx.date, tx.price_per_unit))
        /\ head' = IF is_exhausted(c.lot) THEN head + 1 ELSE head
        /\ ghost' = [ghost EXCEPT
                       !.origin = Append(@, [tx |-> processed, lot |-> i])]
  /\ UNCHANGED <<pc, processed, tx, issues>>
  /\ UNCHANGED notFifoVars

\* if units_to_sell > 0.001 after the loop.
unmatched(uts) == uts > Tol

\* The loop has ended: record an unmatched SELL, go to the next transaction.
SellEnd ==
  /\ pc = "while"
  /\ ~(units_to_sell > Tol /\ Len(lot_queue) > 0)
  /\ IF unmatched(units_to_sell)
       THEN /\ issues' = Append(issues, [fund_key |-> fund_key,
                                         sell_date |-> tx.date,
                                         units |-> units_to_sell])
            /\ results' = IF marks_last(results, tx.date)
                            THEN [results EXCEPT ![Len(results)] = lower_confidence(@)]
                            ELSE results
            /\ ghost' = [ghost EXCEPT !.issue_tx = Append(@, processed)]
       ELSE UNCHANGED <<issues, results, ghost>>
  /\ pc' = "next"
  /\ UNCHANGED <<processed, tx, lots, head, units_to_sell>>
  /\ UNCHANGED notFifoVars

FifoNext ==
  \/ \E u \in Units, p \in BuyPrices, gap \in DayGaps : Buy(u, p, gap)
  \/ \E u \in Units, p \in SellPrices, gap \in DayGaps : SellBegin(u, p, gap)
  \/ PopExhausted
  \/ ConsumeLot
  \/ SellEnd

\* ====================================================== cross_reference.py
\* Rows are records [fund_name, platform, tax_wrapper, tx_sedol, ticker,
\* map_sedol, isin]; SQL NULL and the empty string (both false in Python)
\* are "".  Confidences are in hundredths.
MaxRows == 3

\* Fund names in ORDER BY order.
FundNames == <<"F1", "F2">>
Platforms == {"P1", "P2"}
Wrappers == {"ISA", "SIPP"}
TxSedols == {"", "S1"}
Tickers == {"T1", "T2"}
MapSedols == {"", "S1"}
Isins == {"", "I1"}

\* VERIFIED_THRESHOLD (cross_reference.py:18, models.py:255), in hundredths.
VerifiedThreshold == 90

Range(seq) == {seq[i] : i \in 1..Len(seq)}

RECURSIVE Concat(_)
\* The concatenation of a sequence of sequences.
Concat(ss) == IF Len(ss) = 0 THEN << >> ELSE Head(ss) \o Concat(Tail(ss))

\* A mutant of same_position: only an entry's own copy is skipped.
same_position_and_name(a, b) ==
  a.platform = b.platform /\ a.tax_wrapper = b.tax_wrapper /\ a.fund_name = b.fund_name

\* "Skip if same platform and wrapper".
same_position(a, b) ==
  a.platform = b.platform /\ a.tax_wrapper = b.tax_wrapper

\* The identifiers a row is filed under in _build_lookup_tables.
ticker_of(f) == f.ticker
sedol_of(f) == IF f.tx_sedol # "" THEN f.tx_sedol ELSE f.map_sedol
isin_of(f) == f.isin

RECURSIVE key_order(_, _, _)
\* The keys of a lookup table (a dict) in insertion order; ids[i] is the
\* identifier of row i, "" when it has none.
key_order(ids, i, acc) ==
  IF i > Len(ids) THEN acc
  ELSE IF ids[i] = "" \/ ids[i] \in Range(acc) THEN key_order(ids, i + 1, acc)
  ELSE key_order(ids, i + 1, Append(acc, ids[i]))

RECURSIVE members(_, _, _)
\* The rows filed under key k, as indices into funds, in row order.
members(ids, k, i) ==
  IF i > Len(ids) THEN << >>
  ELSE IF ids[i] = k THEN <<i>> \o members(ids, k, i + 1)
  ELSE members(ids, k, i + 1)

RECURSIVE pairs_of(_, _, _)
\* for i, fund_a in enumerate(g): for fund_b in g[i + 1:], in loop order.
pairs_of(g, i, j) ==
  IF i >= Len(g) THEN << >>
  ELSE IF j > Len(g) THEN pairs_of(g, i + 1, i + 2)
  ELSE <<[a |-> g[i], b |-> g[j]]>> \o pairs_of(g, i, j + 1)

\* Every pair one pass looks at, in loop order, with the identifier shared.
candidates(ids) ==
  LET keys == key_order(ids, 1, << >>)
  IN Concat([n \in 1..Len(keys) |->
       LET ps == pairs_of(members(ids, keys[n], 1), 1, 2)
       IN [m \in 1..Len(ps) |-> [a |-> ps[m].a, b |-> ps[m].b, id |-> keys[n]]]])

\* A CrossReferenceMatch (the free-text reason is left out).
new_match(a, b, match_type, id, confidence) ==
  [fund_a |-> a.fund_name, fund_b |-> b.fund_name,
   platform_a |-> a.platform, platform_b |-> b.platform,
   wrapper_a |-> a.tax_wrapper, wrapper_b |-> b.tax_wrapper,
   match_type |-> match_type, matched_identifier |-> id,
   confidence |-> confidence]

\* A mutant of has_isin_match: only fund_a's ISIN is looked at.
has_isin_match_one_sided(a, b) == a.isin # ""

\* "Check for ISIN confirmation".
has_isin_match(a, b) == a.isin # "" /\ b.isin # "" /\ a.isin = b.isin

\* tuple(sorted([fund_a["fund_name"], fund_b["fund_name"]])): the two names
\* without their order.
name_pair(a, b) == {a.fund_name, b.fund_name}

RECURSIVE ticker_pass(_, _, _)
ticker_pass(fs, cands, n) ==
  IF n > Len(cands) THEN << >>
  ELSE LET a == fs[cands[n].a]
           b == fs[cands[n].b]
       IN IF same_position(a, b) THEN ticker_pass(fs, cands, n + 1)
          ELSE <<new_match(a, b,
                           IF has_isin_match(a, b) THEN "ticker+isin" ELSE "ticker",
                           cands[n].id,
                           IF has_isin_match(a, b) THEN 100 ELSE 95)>>
               \o ticker_pass(fs, cands, n + 1)

\* _find_ticker_matches
find_ticker_matches(fs) ==
  ticker_pass(fs, candidates([i \in 1..Len(fs) |-> ticker_of(fs[i])]), 1)

RECURSIVE id_pass(_, _, _, _, _, _)
\* The loop shared by _find_sedol_matches and _find_isin_matches: the matches
\* found and existing_pairs as the pass leaves it.
id_pass(fs, cands, n, existing, match_type, confidence) ==
  IF n > Len(cands) THEN [matches |-> << >>, existing |-> existing]
  ELSE LET a == fs[cands[n].a]
           b == fs[cands[n].b]
       IN IF same_position(a, b) \/ name_pair(a, b) \in existing
            THEN id_pass(fs, cands, n + 1, existing, match_type, confidence)
            ELSE LET rest == id_pass(fs, cands, n + 1,
                                     existing \cup {name_pair(a, b)},
                                     match_type, confidence)
                 IN [matches |-> <<new_match(a, b, match_type, cands[n].id, confidence)>>
                                   \o rest.matches,
                     existing |-> rest.existing]

\* _find_sedol_matches
find_sedol_matches(fs, existing) ==
  id_pass(fs, candidates([i \in 1..Len(fs) |-> sedol_of(fs[i])]), 1, existing, "sedol", 98)

\* _find_isin_matches
find_isin_matches(fs, existing) ==
  id_pass(fs, candidates([i \in 1..Len(fs) |-> isin_of(fs[i])]), 1, existing, "isin", 92)

\* The pairs _find_same_wrapper_holdings looks at: per ticker, per platform
\* of that ticker's rows (both in insertion order), every pair of rows.
wrapper_candidates(fs) ==
  LET tids == [i \in 1..Len(fs) |-> ticker_of(fs[i])]
      tkeys == key_order(tids, 1, << >>)
  IN Concat([n \in 1..Len(tkeys) |->
       LET pids == [i \in 1..Len(fs) |->
                      IF tids[i] = tkeys[n] THEN fs[i].platform ELSE ""]
           pkeys == key_order(pids, 1, << >>)
       IN Concat([q \in 1..Len(pkeys) |->
            LET ps == pairs_of(members(pids, pkeys[q], 1), 1, 2)
            IN [m \in 1..Len(ps) |->
                  [a |-> ps[m].a, b |-> ps[m].b, id |-> tkeys[n]]]])])

RECURSIVE wrapper_pass(_, _, _, _)
wrapper_pass(fs, cands, n, seen_pairs) ==
  IF n > Len(cands) THEN << >>
  ELSE LET a == fs[cands[n].a]
           b == fs[cands[n].b]
           pair == {<<a.fund_name, a.tax_wrapper>>, <<b.fund_name, b.tax_wrapper>>}
       IN IF a.tax_wrapper = b.tax_wrapper \/ pair \in seen_pairs
            THEN wrapper_pass(fs, cands, n + 1, seen_pairs)
            ELSE <<new_match(a, b, "same_platform_different_wrapper", cands[n].id, 100)>>
                 \o wrapper_pass(fs, cands, n + 1, seen_pairs \cup {pair})

\* _find_same_wrapper_holdings
find_same_wrapper_holdings(fs) == wrapper_pass(fs, wrapper_candidates(fs), 1, {})

\* CrossReferenceMatch.is_verified
is_verified(m) == m.confidence >= VerifiedThreshold

\* all_matches as analyze builds it: ticker, SEDOL, ISIN, same-wrapper.
analyze_matches(fs) ==
  LET ticker_matches == find_ticker_matches(fs)
      existing0 == {{ticker_matches[k].fund_a, ticker_matches[k].fund_b} :
                      k \in 1..Len(ticker_matches)}
      sedol == find_sedol_matches(fs, existing0)
      isin == find_isin_matches(fs, sedol.existing)
  IN ticker_matches \o sedol.matches \o isin.matches \o find_same_wrapper_holdings(fs)

\* The names analyze reports as without identifiers (a set: list(set(...))).
without_ids(fs) ==
  {fs[i].fund_name : i \in {j \in 1..Len(fs) :
      fs[j].ticker = "" /\ fs[j].tx_sedol = "" /\ fs[j].map_sedol = "" /\ fs[j].isin = ""}}

\* ---- the inputs
\* fund_ticker_mapping: no row for the fund, or one with a ticker (NOT NULL).
NoMapping == [ticker |-> "", map_sedol |-> "", isin |-> ""]
Mappings ==
  {NoMapping} \cup
  [ticker : Tickers, map_sedol : MapSedols, isin : Isins]

\* The positions with a BUY/SELL transaction, each with the transaction's
\* own SEDOL column.
Entries ==
  [name : 1..Len(FundNames), platform : Platforms, tax_wrapper : Wrappers,
   tx_sedol : TxSedols]

\* SELECT DISTINCT ... ORDER BY t.fund_name: distinct rows, names ascending,
\* rows of one name in any order.
RowLists ==
  UNION {{s \in [1..n -> Entries] :
            /\ \A i \in 1..n, j \in 1..n : i < j => s[i].name <= s[j].name
            /\ \A i \in 1..n, j \in 1..n : i # j => s[i] # s[j]}
         : n \in 0..MaxRows}

\* The LEFT JOIN of the rows with the mapping.
joined(rows, ftm) ==
  [i \in 1..Len(rows) |->
     [fund_name |-> FundNames[rows[i].name],
      platform |-> rows[i].platform,
      tax_wrapper |-> rows[i].tax_wrapper,
      tx_sedol |-> rows[i].tx_sedol,
      ticker |-> ftm[rows[i].name].ticker,
      map_sedol |-> ftm[rows[i].name].map_sedol,
      isin |-> ftm[rows[i].name].isin]]

XrefIdle ==
  /\ xpc = "idle"
  /\ funds = << >>
  /\ all_matches = << >>
  /\ verified = << >>
  /\ unsure = << >>
  /\ funds_without_ids = {}

XrefStart ==
  /\ xpc = "start"
  /\ \E rows \in RowLists, ftm \in [1..Len(FundNames) -> Mappings] :
       funds = joined(rows, ftm)
  /\ all_matches = << >>
  /\ verified = << >>
  /\ unsure = << >>
  /\ funds_without_ids = {}

\* CrossReferenceAnalyzer.analyze
Analyze ==
  /\ xpc = "start"
  /\ all_matches' = analyze_matches(funds)
  /\ verified' = SelectSeq(all_matches', is_verified)
  /\ unsure' = SelectSeq(all_matches', LAMBDA m : ~is_verified(m))
  /\ funds_without_ids' = without_ids(funds)
  /\ xpc' = "done"
  /\ UNCHANGED funds
  /\ UNCHANGED notXrefVars

\* ========================================================= price_impact.py
\* Tickers and fund names are sequences of characters, so that a suffix, a
\* prefix or a substring is computed.  Prices are whole numbers of a minor
\* unit; every close price that gets divided by 100 is a multiple of 100, so
\* the division is exact.  Dates are day ordinals.
MaxImpactTx == 2

Ticker_VW == <<"V", "W">>
Ticker_VWL == <<"V", "W", ".", "L">>
Fund_AB == <<"A", "B">>
Fund_CD == <<"C", "D">>

\* The tickers of the model, in the order rows of one transaction are joined.
TickerOrder == <<Ticker_VW, Ticker_VWL>>

\* Execution prices 1% and 0.5% below, at, and 0.5% above a close of 200.
ImpactExecPrices == {198, 199, 200, 201}
ImpactDates == {1, 2}

Abs(x) == IF x < 0 THEN 0 - x ELSE x

\* str.endswith
ends_with(s, suffix) ==
  Len(s) >= Len(suffix) /\ SubSeq(s, Len(s) - Len(suffix) + 1, Len(s)) = suffix

\* LSE_PENCE_SUFFIX (price_impact.py:25)
LSE_PENCE_SUFFIX == <<".", "L">>

\* A mutant of _normalize_market_price: the range taken closed.
normalize_market_price_closed(ticker, market_price, execution_price) ==
  IF /\ Len(ticker) > 0 /\ ends_with(ticker, LSE_PENCE_SUFFIX)
     /\ execution_price > 0
     /\ 80 * execution_price <= market_price
     /\ market_price <= 120 * execution_price
    THEN market_price \div 100
    ELSE market_price

\* _normalize_market_price.  ratio = market_price / execution_price (0 when
\* execution_price <= 0); 80 < ratio < 120 is compared by cross-multiplying.
normalize_market_price(ticker, market_price, execution_price) ==
  IF /\ Len(ticker) > 0 /\ ends_with(ticker, LSE_PENCE_SUFFIX)
     /\ execution_price > 0
     /\ 80 * execution_price < market_price
     /\ market_price < 120 * execution_price
    THEN market_price \div 100
    ELSE market_price

\* A mutant of _classify_impact: the tolerance taken strictly.
classify_impact_strict(transaction_type, execution_price, market_price) ==
  IF 200 * Abs(execution_price - market_price) < market_price
    THEN "neutral"
  ELSE IF transaction_type = "BUY"
    THEN (IF execution_price < market_price THEN "favorable" ELSE "unfavorable")
  ELSE (IF execution_price > market_price THEN "favorable" ELSE "unfavorable")

\* PriceImpactAnalyzer._classify_impact, for market_price > 0:
\* abs((execution_price - market_price) / market_price * 100) <= 0.5 is
\* 200 * |execution_price - market_price| <= market_price.
classify_impact(transaction_type, execution_price, market_price) ==
  IF 200 * Abs(execution_price - market_price) <= market_price
    THEN "neutral"
  ELSE IF transaction_type = "BUY"
    THEN (IF execution_price < market_price THEN "favorable" ELSE "unfavorable")
  ELSE (IF execution_price > market_price THEN "favorable" ELSE "unfavorable")

RECURSIVE by_date(_)
\* ORDER BY t.date: ascending dates, rows of one date in table order.
by_date(rows) ==
  IF Len(rows) = 0 THEN << >>
  ELSE LET d == CHOOSE x \in {rows[i].date : i \in 1..Len(rows)} :
                  \A i \in 1..Len(rows) : x <= rows[i].date
       IN SelectSeq(rows, LAMBDA r : r.date = d)
          \o by_date(SelectSeq(rows, LAMBDA r : r.date # d))

\* A mutant of price_rows: any date's price of the ticker is joined.
price_rows_any_date(ph, ticker, date) == {r \in ph : r.ticker = ticker}

\* ON ftm.ticker = ph.ticker AND t.date = ph.date: the price_history rows of
\* a ticker on exactly one date (at most one: UNIQUE(date, ticker)).
price_rows(ph, ticker, date) == {r \in ph : r.ticker = ticker /\ r.date = date}

\* WHERE t.excluded = 0 AND t.transaction_type IN ('BUY', 'SELL')
is_trade(t) == t.excluded = 0 /\ t.transaction_type \in {"BUY", "SELL"}

\* The rows one transaction contributes to _get_transactions_with_prices.
rows_with_prices(t, ftm, ph) ==
  Concat([i \in 1..Len(TickerOrder) |->
    LET k == TickerOrder[i]
        prices == {r \in price_rows(ph, k, t.date) : r.close_price > 0}
    IN IF /\ [fund_name |-> t.fund_name, ticker |-> k] \in ftm
          /\ is_trade(t) /\ t.price_per_unit > 0
          /\ prices # {}
         THEN <<[id |-> t.id, date |-> t.date, fund_name |-> t.fund_name,
                 ticker |-> k, transaction_type |-> t.transaction_type,
                 execution_price |-> t.price_per_unit,
                 market_price |-> (CHOOSE r \in prices : TRUE).close_price,
                 units |-> t.units]>>
         ELSE << >>])

\* PriceImpactAnalyzer._get_transactions_with_prices
get_transactions_with_prices(txs, ftm, ph) ==
  LET sorted == by_date(txs)
  IN Concat([n \in 1..Len(sorted) |-> rows_with_prices(sorted[n], ftm, ph)])

\* PriceImpactAnalyzer._get_transactions_missing_prices: COUNT(*) of the
\* joined (transaction, mapping) rows with no price_history row.
get_transactions_missing_prices(txs, ftm, ph) ==
  Cardinality({p \in (1..Len(txs)) \X ftm :
                 /\ p[2].fund_name = txs[p[1]].fund_name
                 /\ is_trade(txs[p[1]])
                 /\ price_rows(ph, p[2].ticker, txs[p[1]].date) = {}})

\* The PriceImpactResult of one joined row (price_difference_pct, a
\* fraction, is left out).
impact_result(row) ==
  LET market_price ==
        normalize_market_price(row.ticker, row.market_price, row.execution_price)
      price_diff == row.execution_price - market_price
  IN [date |-> row.date, fund_name |-> row.fund_name, ticker |-> row.ticker,
      transaction_type |-> row.transaction_type,
      execution_price |-> row.execution_price,
      market_price |-> market_price,
      price_difference |-> price_diff,
      value_impact |-> price_diff * row.units,
      units |-> row.units,
      classification |->
        classify_impact(row.transaction_type, row.execution_price, market_price),
      confidence |-> 85]

\* ---- the inputs
\* A row of table transactions.
TxRow(id, date, fund_name, transaction_type, units, price_per_unit, excluded) ==
  [id |-> id, date |-> date, fund_name |-> fund_name,
   platform |-> "FIDELITY", tax_wrapper |-> "ISA",
   transaction_type |-> transaction_type, units |-> units,
   price_per_unit |-> price_per_unit, excluded |-> excluded]

\* The transactions drawn: trades of the mapped fund at every date, type
\* and price, and one each of an excluded trade, a dividend, a trade without
\* a price and a trade of a fund with no ticker.
ImpactTxChoices(id) ==
  {TxRow(id, d, Fund_AB, ty, 3, e, 0) :
     d \in ImpactDates, ty \in {"BUY", "SELL"}, e \in ImpactExecPrices}
  \cup {TxRow(id, 1, Fund_AB, "BUY", 3, 200, 1),
        TxRow(id, 1, Fund_AB, "DIVIDEND", 3, 200, 0),
        TxRow(id, 1, Fund_AB, "BUY", 3, 0, 0),
        TxRow(id, 1, Fund_CD, "BUY", 3, 200, 0)}

ImpactTxTables ==
  UNION {{s \in [1..n -> UNION {ImpactTxChoices(i) : i \in 1..n}] :
            \A i \in 1..n : s[i].id = i}
         : n \in 0..MaxImpactTx}

ImpactMappings ==
  {{[fund_name |-> Fund_AB, ticker |-> Ticker_VW]},
   {[fund_name |-> Fund_AB, ticker |-> Ticker_VWL]},
   {[fund_name |-> Fund_AB, ticker |-> Ticker_VW],
    [fund_name |-> Fund_AB, ticker |-> Ticker_VWL]}}

\* Closes per (ticker, date); 0 stands for no row.  Date 1: around 200 and
\* around 100 times 200; date 2: a price only for the ticker without suffix.
ImpactPriceTables ==
  {{r \in {[ticker |-> Ticker_VW, date |-> 1, close_price |-> a],
           [ticker |-> Ticker_VWL, date |-> 1, close_price |-> b],
           [ticker |-> Ticker_VW, date |-> 2, close_price |-> c]} :
      r.close_price # 0}
   : a \in {0, 199, 200, 20000}, b \in {0, 200, 16000, 20000, 24000},
     c \in {0, 200}}

DbIdle ==
  /\ tx_table = << >>
  /\ ftm_table = {}
  /\ price_history = {}

ImpactIdle ==
  /\ ipc = "idle"
  /\ impact_rows = << >>
  /\ impact_results = << >>
  /\ missing_count = 0

ImpactStart ==
  /\ tx_table \in ImpactTxTables
  /\ ftm_table \in ImpactMappings
  /\ price_history \in ImpactPriceTables
  /\ ipc = "start"
  /\ impact_rows = << >>
  /\ impact_results = << >>
  /\ missing_count = 0

\* PriceImpactAnalyzer.analyze
PriceImpactAnalyze ==
  /\ ipc = "start"
  /\ impact_rows' = get_transactions_with_prices(tx_table, ftm_table, price_history)
  /\ missing_count' = get_transactions_missing_prices(tx_table, ftm_table, price_history)
  /\ impact_results' = [k \in 1..Len(impact_rows') |-> impact_result(impact_rows'[k])]
  /\ ipc' = "done"
  /\ UNCHANGED dbVars
  /\ UNCHANGED <<fifoVars, xrefVars, holdingsVars, confVars, laterVars>>

\* ===================================================== current_holdings.py
\* Units are in thousandths as in Part 1 (0.001 is Tol); prices are whole
\* numbers and every close above 500 of a .L ticker is a multiple of 100.
MaxHoldTx == 2

Ticker_GBX == <<"G", "B", "X">>
Ticker_GBXL == <<"G", "B", "X", ".", "L">>
Fund_CAB == <<"C", "A", "B">>

\* str.startswith
starts_with(s, prefix) == Len(s) >= Len(prefix) /\ SubSeq(s, 1, Len(prefix)) = prefix

\* fund_name[:n]
take(s, n) == SubSeq(s, 1, Min(n, Len(s)))

\* name LIKE '%pattern%' for names and patterns of upper-case letters (no
\* wildcard characters in the pattern): pattern is a substring of name.
like_contains(name, pattern) ==
  \E i \in 0..(Len(name) - Len(pattern)) :
    SubSeq(name, i + 1, i + Len(pattern)) = pattern

\* _convert_lse_price
convert_lse_price(ticker, price) ==
  IF Len(ticker) > 0 /\ ends_with(ticker, <<".", "L">>) /\ price > 500
    THEN price \div 100
    ELSE price

\* (None, None)
NoPrice == [some |-> FALSE, price |-> 0, date |-> 0]

\* SELECT close_price, date ... WHERE ticker = ? ORDER BY date DESC LIMIT 1
latest_row(ph, ticker) ==
  CHOOSE r \in {x \in ph : x.ticker = ticker} :
    \A x \in ph : x.ticker = ticker => x.date <= r.date

\* A mutant of _get_latest_price: a price of 0.0 where there is none.
get_latest_price_zero(ph, ticker) ==
  IF \E r \in ph : r.ticker = ticker
    THEN [some |-> TRUE,
          price |-> convert_lse_price(ticker, latest_row(ph, ticker).close_price),
          date |-> latest_row(ph, ticker).date]
    ELSE [some |-> TRUE, price |-> 0, date |-> 0]

\* CurrentHoldingsAnalyzer._get_latest_price
get_latest_price(ph, ticker) ==
  IF \E r \in ph : r.ticker = ticker
    THEN [some |-> TRUE,
          price |-> convert_lse_price(ticker, latest_row(ph, ticker).close_price),
          date |-> latest_row(ph, ticker).date]
  ELSE IF /\ ~ends_with(ticker, <<".", "L">>)
          /\ ~starts_with(ticker, <<"G", "B">>)
          /\ ~starts_with(ticker, <<"I", "E">>)
          /\ ~starts_with(ticker, <<"L", "U">>)
    THEN LET lse_ticker == ticker \o <<".", "L">>
         IN IF \E r \in ph : r.ticker = lse_ticker
              THEN [some |-> TRUE,
                    price |-> convert_lse_price(lse_ticker,
                                                latest_row(ph, lse_ticker).close_price),
                    date |-> latest_row(ph, lse_ticker).date]
              ELSE NoPrice
  ELSE NoPrice

\* platform_map, for the snapshot's platform names that it lists.
platform_map ==
  [p \in {"Fidelity", "Vanguard"} |->
     IF p = "Fidelity" THEN "FIDELITY" ELSE "VANGUARD"]

\* The WHERE clause both queries of _get_cost_basis share.
in_position(t, db_platform, tax_wrapper) ==
  /\ t.platform = db_platform
  /\ t.tax_wrapper = tax_wrapper
  /\ t.excluded = 0
  /\ t.transaction_type \in {"BUY", "SELL"}

\* "First try by ticker mapping"
transactions_by_ticker(txs, ftm, ticker, db_platform, tax_wrapper) ==
  by_date(SelectSeq(txs, LAMBDA t :
    /\ [fund_name |-> t.fund_name, ticker |-> ticker] \in ftm
    /\ in_position(t, db_platform, tax_wrapper)))

\* "Try by fund name pattern": fund_name LIKE %fund_name[:20]%
transactions_by_name(txs, fund_name, db_platform, tax_wrapper) ==
  by_date(SelectSeq(txs, LAMBDA t :
    /\ like_contains(t.fund_name, take(fund_name, 20))
    /\ in_position(t, db_platform, tax_wrapper)))

\* The transactions _get_cost_basis runs the FIFO over.
matching_transactions(txs, ftm, ticker, fund_name, platform, tax_wrapper) ==
  LET by_ticker == transactions_by_ticker(txs, ftm, ticker,
                                          platform_map[platform], tax_wrapper)
  IN IF Len(by_ticker) > 0 THEN by_ticker
     ELSE transactions_by_name(txs, fund_name, platform_map[platform], tax_wrapper)

\* A mutant of sell_step: the front lot is popped only when its remaining
\* has gone below zero.
sell_step_pop_below_zero(ls, uts) ==
  LET consumed == Min(uts, ls[1].remaining)
      remaining == ls[1].remaining - consumed
  IN [lots |-> IF remaining < 0
                 THEN Tail(ls)
                 ELSE <<[ls[1] EXCEPT !.remaining = remaining]>> \o Tail(ls),
      units_to_sell |-> uts - consumed]

\* One iteration of the SELL loop: consume from lots[0], pop it when its
\* remaining < 0.001.
sell_step(ls, uts) ==
  LET consumed == Min(uts, ls[1].remaining)
      remaining == ls[1].remaining - consumed
  IN [lots |-> IF remaining < Tol
                 THEN Tail(ls)
                 ELSE <<[ls[1] EXCEPT !.remaining = remaining]>> \o Tail(ls),
      units_to_sell |-> uts - consumed]

RECURSIVE sell_from(_, _)
\* while units_to_sell > 0.001 and lots: the lots as the loop leaves them.
sell_from(ls, uts) ==
  IF uts > Tol /\ Len(ls) > 0
    THEN sell_from(sell_step(ls, uts).lots, sell_step(ls, uts).units_to_sell)
    ELSE ls

RECURSIVE fifo_lots(_, _, _)
\* "FIFO calculation": the lots left after transactions[n..] were processed.
fifo_lots(transactions, n, ls) ==
  IF n > Len(transactions) THEN ls
  ELSE IF transactions[n].transaction_type = "BUY"
    THEN fifo_lots(transactions, n + 1,
                   Append(ls, [date |-> transactions[n].date,
                               units |-> transactions[n].units,
                               price |-> transactions[n].price_per_unit,
                               remaining |-> transactions[n].units]))
  ELSE IF transactions[n].transaction_type = "SELL"
    THEN fifo_lots(transactions, n + 1, sell_from(ls, transactions[n].units))
  ELSE fifo_lots(transactions, n + 1, ls)

RECURSIVE lots_cost(_)
\* "Calculate cost basis from remaining lots": lots above 0.001 only.
lots_cost(ls) ==
  IF Len(ls) = 0 THEN 0
  ELSE (IF ls[1].remaining > Tol THEN ls[1].remaining * ls[1].price ELSE 0)
       + lots_cost(Tail(ls))

RECURSIVE lots_units(_)
\* units_accounted
lots_units(ls) ==
  IF Len(ls) = 0 THEN 0
  ELSE (IF ls[1].remaining > Tol THEN ls[1].remaining ELSE 0) + lots_units(Tail(ls))

\* A mutant of discrepancy_confidence: the units are compared with no margin.
discrepancy_confidence_exact(units_accounted, units_held) ==
  IF units_accounted # units_held THEN 70 ELSE 100

\* abs(units_accounted - units_held) > units_held * 0.1: confidence 0.7, else
\* 1.0 (in hundredths; compared times ten).
discrepancy_confidence(units_accounted, units_held) ==
  IF 10 * Abs(units_accounted - units_held) > units_held THEN 70 ELSE 100

\* A mutant of no_transactions: the fallback passes for a full answer.
no_transactions_full ==
  [cost_basis |-> 0, total_buys |-> 0, first_buy_date |-> 0, confidence |-> 100]

\* return 0.0, 0, None, 0.5 (first_buy_date None is 0)
no_transactions ==
  [cost_basis |-> 0, total_buys |-> 0, first_buy_date |-> 0, confidence |-> 50]

\* CurrentHoldingsAnalyzer._get_cost_basis
get_cost_basis(txs, ftm, ticker, fund_name, platform, tax_wrapper, units_held) ==
  LET transactions == matching_transactions(txs, ftm, ticker, fund_name,
                                            platform, tax_wrapper)
      buys == SelectSeq(transactions, LAMBDA t : t.transaction_type = "BUY")
      ls == fifo_lots(transactions, 1, << >>)
  IN IF Len(transactions) = 0 THEN no_transactions
     ELSE [cost_basis |-> lots_cost(ls),
           total_buys |-> Len(buys),
           first_buy_date |-> IF Len(buys) > 0 THEN buys[1].date ELSE 0,
           confidence |-> discrepancy_confidence(lots_units(ls), units_held)]

\* The snapshot flattened in the order analyze visits it:
\* for ticker, data in holdings_data.items(): for holding in data["holdings"].
entries_of(data) ==
  Concat([n \in 1..Len(data) |->
    [m \in 1..Len(data[n].holdings) |->
       [ticker |-> data[n].ticker, fund_name |-> data[n].fund_name,
        platform |-> data[n].holdings[m].platform,
        tax_wrapper |-> data[n].holdings[m].tax_wrapper,
        units |-> data[n].holdings[m].units]]])

\* The HoldingAnalysis of an entry without a price (unrealized_gain_pct and
\* the performance fields are left out; price_date "N/A" is 0).
no_price_result(e) ==
  [ticker |-> e.ticker, fund_name |-> e.fund_name, platform |-> e.platform,
   tax_wrapper |-> e.tax_wrapper, units |-> e.units,
   current_price |-> 0, current_value |-> 0, cost_basis |-> 0,
   unrealized_gain |-> 0, price_date |-> 0,
   first_buy_date |-> 0, total_buys |-> 0,
   confidence |-> 30, notes |-> "No price data available"]

\* The HoldingAnalysis of an entry with price current and cost basis cb.
priced_result(e, current, cb) ==
  [ticker |-> e.ticker, fund_name |-> e.fund_name, platform |-> e.platform,
   tax_wrapper |-> e.tax_wrapper, units |-> e.units,
   current_price |-> current.price,
   current_value |-> e.units * current.price,
   cost_basis |-> cb.cost_basis,
   unrealized_gain |-> e.units * current.price - cb.cost_basis,
   price_date |-> current.date,
   first_buy_date |-> cb.first_buy_date, total_buys |-> cb.total_buys,
   confidence |-> cb.confidence,
   notes |-> IF cb.confidence < 90
               THEN "Cost basis may be incomplete (pre-history purchases)"
               ELSE ""]

\* One pass of the inner loop of analyze.
holding_result(e, txs, ftm, ph) ==
  LET current == get_latest_price(ph, e.ticker)
  IN IF ~current.some THEN no_price_result(e)
     ELSE priced_result(e, current,
                        get_cost_basis(txs, ftm, e.ticker, e.fund_name,
                                       e.platform, e.tax_wrapper, e.units))

\* ---- the inputs
\* Rows of the position (FIDELITY, ISA) of fund AB, and one row each that
\* is of another fund name, platform or wrapper, excluded, or no trade.
HoldTxChoices(id) ==
  {TxRow(id, id, Fund_AB, "BUY", 2, 10, 0),
   TxRow(id, id, Fund_AB, "BUY", 11, 10, 0),
   TxRow(id, id, Fund_AB, "BUY", 12, 20, 0),
   TxRow(id, id, Fund_AB, "SELL", 2, 30, 0),
   TxRow(id, id, Fund_CAB, "BUY", 11, 10, 0),
   TxRow(id, id, Fund_CD, "BUY", 12, 10, 0),
   TxRow(id, id, Fund_AB, "BUY", 11, 10, 1),
   TxRow(id, id, Fund_AB, "DIVIDEND", 11, 10, 0),
   [TxRow(id, id, Fund_AB, "BUY", 11, 10, 0) EXCEPT !.platform = "VANGUARD"],
   [TxRow(id, id, Fund_AB, "BUY", 11, 10, 0) EXCEPT !.tax_wrapper = "SIPP"]}

\* Table transactions with one row a day.
HoldTxTables ==
  UNION {{s \in [1..n -> UNION {HoldTxChoices(i) : i \in 1..n}] :
            \A i \in 1..n : s[i].id = i}
         : n \in 0..MaxHoldTx}

HoldMappings ==
  {{},
   {[fund_name |-> Fund_AB, ticker |-> Ticker_VW]},
   {[fund_name |-> Fund_CD, ticker |-> Ticker_VW]}}

HoldPriceTables ==
  {{},
   {[ticker |-> Ticker_VW, date |-> 1, close_price |-> 100]},
   {[ticker |-> Ticker_VW, date |-> 1, close_price |-> 100],
    [ticker |-> Ticker_VW, date |-> 2, close_price |-> 120]},
   {[ticker |-> Ticker_VWL, date |-> 1, close_price |-> 600]},
   {[ticker |-> Ticker_VWL, date |-> 1, close_price |-> 400]},
   {[ticker |-> Ticker_GBXL, date |-> 1, close_price |-> 100]},
   {[ticker |-> Ticker_GBX, date |-> 1, close_price |-> 100]},
   {[ticker |-> Ticker_VW, date |-> 1, close_price |-> 100],
    [ticker |-> Ticker_GBX, date |-> 1, close_price |-> 100]}}

HoldingChoices ==
  {[platform |-> "Fidelity", tax_wrapper |-> "ISA", units |-> 10],
   [platform |-> "Fidelity", tax_wrapper |-> "ISA", units |-> 20],
   [platform |-> "Vanguard", tax_wrapper |-> "ISA", units |-> 10]}

\* One or two holdings of a ticker.
HoldingLists ==
  {<<h>> : h \in HoldingChoices}
  \cup {<<h, g>> : h \in HoldingChoices, g \in {x \in HoldingChoices : x.platform = "Vanguard"}}

\* The snapshot: no ticker, one ticker, or the two tickers.
Snapshots ==
  {<< >>}
  \cup {<<[ticker |-> k, fund_name |-> Fund_AB, holdings |-> hs]>> :
          k \in {Ticker_VW, Ticker_GBX}, hs \in HoldingLists}
  \cup {<<[ticker |-> Ticker_VW, fund_name |-> Fund_AB, holdings |-> hs],
          [ticker |-> Ticker_GBX, fund_name |-> Fund_AB, holdings |-> gs]>> :
          hs \in HoldingLists, gs \in {<<h>> : h \in HoldingChoices}}

HoldingsIdle ==
  /\ hpc = "idle"
  /\ holdings_data = << >>
  /\ holding_results = << >>
  /\ holdings_with_prices = 0
  /\ holdings_without_prices = 0
  /\ cost_ghost = << >>

HoldingsStart ==
  /\ tx_table \in HoldTxTables
  /\ ftm_table \in HoldMappings
  /\ price_history \in HoldPriceTables
  /\ holdings_data \in Snapshots
  /\ hpc = "start"
  /\ holding_results = << >>
  /\ holdings_with_prices = 0
  /\ holdings_without_prices = 0
  /\ cost_ghost = << >>

\* CurrentHoldingsAnalyzer.analyze (an empty snapshot returns [], {}).
HoldingsAnalyze ==
  /\ hpc = "start"
  /\ LET es == entries_of(holdings_data)
         priced == {k \in 1..Len(es) : get_latest_price(price_history, es[k].ticker).some}
     IN /\ holding_results' =
             [k \in 1..Len(es) |->
                holding_result(es[k], tx_table, ftm_table, price_history)]
        /\ holdings_with_prices' = Cardinality(priced)
        /\ holdings_without_prices' = Len(es) - Cardinality(priced)
        /\ cost_ghost' =
             [k \in 1..Len(es) |->
                LET matched == matching_transactions(tx_table, ftm_table,
                                 es[k].ticker, es[k].fund_name,
                                 es[k].platform, es[k].tax_wrapper)
                IN [called |-> k \in priced,
                    matched |-> matched,
                    lots |-> fifo_lots(matched, 1, << >>)]]
  /\ hpc' = "done"
  /\ UNCHANGED <<holdings_data, dbVars>>
  /\ UNCHANGED <<fifoVars, xrefVars, impactVars, confVars, laterVars>>

\* ============================== models.py: calculate_overall_confidence
\* Confidences are in hundredths and weights in tenths; a mean or a weighted
\* average is a fraction [n, d] of whole numbers (d > 0), compared by
\* cross-multiplying.
MaxComponentResults == 2

Frac(n, d) == [n |-> n, d |-> d]
FracAdd(a, b) == Frac(a.n * b.d + b.n * a.d, a.d * b.d)
FracTimes(a, k) == Frac(a.n * k, a.d)
FracOver(a, k) == Frac(a.n, a.d * k)
FracEq(a, b) == a.n * b.d = b.n * a.d

RECURSIVE sum_confidence(_)
\* sum(x.confidence for x in xs)
sum_confidence(xs) ==
  IF Len(xs) = 0 THEN 0 ELSE xs[1].confidence + sum_confidence(Tail(xs))

\* sum(x.confidence for x in xs) / len(xs)
mean_confidence(xs) == Frac(sum_confidence(xs), Len(xs))

\* The list `confidences` of (value, weight) pairs.
component_confidences(r) ==
  LET all_matches_of == r.verified_matches \o r.unsure_matches
  IN (IF Len(r.holding_periods) > 0
        THEN <<[c |-> mean_confidence(r.holding_periods), w |-> 4]>> ELSE << >>)
     \o <<[c |-> Frac(100, 1), w |-> 2]>>
     \o (IF Len(r.price_impacts) > 0
           THEN <<[c |-> mean_confidence(r.price_impacts), w |-> 2]>> ELSE << >>)
     \o (IF Len(all_matches_of) > 0
           THEN <<[c |-> mean_confidence(all_matches_of), w |-> 2]>> ELSE << >>)

RECURSIVE total_weight(_)
\* sum(w for _, w in confidences)
total_weight(cs) == IF Len(cs) = 0 THEN 0 ELSE cs[1].w + total_weight(Tail(cs))

RECURSIVE weighted_sum(_)
\* sum(c * w for c, w in confidences)
weighted_sum(cs) ==
  IF Len(cs) = 0 THEN Frac(0, 1)
  ELSE FracAdd(FracTimes(cs[1].c, cs[1].w), weighted_sum(Tail(cs)))

\* A mutant of calculate_overall_confidence: a skipped component keeps its
\* share of the total weight (the weights always add up to 1.0).
calculate_overall_confidence_all_weights(r) ==
  LET confidences == component_confidences(r)
  IN IF Len(confidences) = 0 THEN Frac(0, 1)
     ELSE FracOver(weighted_sum(confidences), 10)

\* AnalysisResult.calculate_overall_confidence
calculate_overall_confidence(r) ==
  LET confidences == component_confidences(r)
  IN IF Len(confidences) = 0 THEN Frac(0, 1)
     ELSE FracOver(weighted_sum(confidences), total_weight(confidences))

\* ---- the inputs
\* Lists of up to MaxComponentResults results with confidences from cs.
ResultLists(cs) ==
  UNION {[1..n -> [confidence : cs]] : n \in 0..MaxComponentResults}

\* The confidences the components give their results: 1.0 or 0.7 for a
\* holding period, 0.85 for a price impact, a tier for a match (all of them
\* verified: no tier is below 0.90).
AnalysisResults ==
  [holding_periods : ResultLists({100, 70}),
   price_impacts : ResultLists({85}),
   verified_matches : ResultLists({100, 95, 92}),
   unsure_matches : {<< >>}]

ConfIdle ==
  /\ cpc = "idle"
  /\ analysis_result = [holding_periods |-> << >>, price_impacts |-> << >>,
                        verified_matches |-> << >>, unsure_matches |-> << >>]
  /\ overall_confidence = Frac(0, 1)

ConfStart ==
  /\ cpc = "start"
  /\ analysis_result \in AnalysisResults
  /\ overall_confidence = Frac(0, 1)

\* result.calculate_overall_confidence()
CalculateOverallConfidence ==
  /\ cpc = "start"
  /\ overall_confidence' = calculate_overall_confidence(analysis_result)
  /\ cpc' = "done"
  /\ UNCHANGED analysis_result
  /\ UNCHANGED <<fifoVars, xrefVars, dbVars, impactVars, holdingsVars, laterVars>>

\* All the analyzers' parts at rest.
AnalyzersIdle ==
  FifoInit /\ XrefIdle /\ DbIdle /\ ImpactIdle /\ HoldingsIdle /\ ConfIdle

\* ================================= scripts/analyze_transactions.py: run_analysis
MaxRunHoldings == 2

\* An Optional[float]: None, or a value.
None == [some |-> FALSE, v |-> 0]
Some(x) == [some |-> TRUE, v |-> x]

\* The analyzers in the order of their `with` blocks.
Analyzers ==
  <<"holding_period", "trading_frequency", "price_impact", "cross_reference",
    "current_holdings", "performance">>

\* The connections of one run: one per analyzer and the one of
\* get_transaction_stats.
Connections == {Analyzers[i] : i \in 1..Len(Analyzers)} \cup {"stats"}

\* The benchmark tickers the merge looks up, with the field each one sets.
BenchmarkFields ==
  <<[ticker |-> "VWRL.L", field |-> "benchmark_vwrl"],
    [ticker |-> "VUSA.L", field |-> "benchmark_vusa"],
    [ticker |-> "VFEM.L", field |-> "benchmark_vfem"],
    [ticker |-> "VUKE.L", field |-> "benchmark_vuke"],
    [ticker |-> "IJPN.L", field |-> "benchmark_ijpn"]>>

BenchmarkFieldNames == {BenchmarkFields[i].field : i \in 1..Len(BenchmarkFields)}

\* A mutant of next_step: the Performance analyzer is run before the
\* Current Holdings analyzer.
next_step_performance_first(step) ==
  CASE step = "start" -> "holding_period"
    [] step = "holding_period" -> "trading_frequency"
    [] step = "trading_frequency" -> "price_impact"
    [] step = "price_impact" -> "cross_reference"
    [] step = "cross_reference" -> "performance"
    [] step = "performance" -> "current_holdings"
    [] step = "current_holdings" -> "confidence"
    [] step = "confidence" -> "returned"

\* The statement run_analysis goes to when `step` has ended without raising.
next_step(step) ==
  CASE step = "start" -> "holding_period"
    [] step = "holding_period" -> "trading_frequency"
    [] step = "trading_frequency" -> "price_impact"
    [] step = "price_impact" -> "cross_reference"
    [] step = "cross_reference" -> "current_holdings"
    [] step = "current_holdings" -> "performance"
    [] step = "performance" -> "confidence"
    [] step = "confidence" -> "returned"

\* How a step that opens a connection can end: "ok", sqlite3.connect raises
\* ("connect"), or a statement run on the open connection raises ("query").
Outcomes == {"ok", "connect", "query"}

\* get_transaction_stats: conn.close() is reached only when execute and
\* fetchone have not raised.
stats_connection(outcome) ==
  CASE outcome = "ok" -> "closed"
    [] outcome = "connect" -> "none"
    [] outcome = "query" -> "open"

\* `with Analyzer(db_path) as analyzer:` __init__ connects, and __exit__
\* closes whether the block raised or not.
with_connection(outcome) ==
  CASE outcome = "ok" -> "closed"
    [] outcome = "connect" -> "none"
    [] outcome = "query" -> "closed"

\* The events of one `with` block: analyze() is entered once the analyzer is
\* constructed and returns unless it raises.
analyze_events(a, outcome) ==
  CASE outcome = "ok" -> <<[analyzer |-> a, event |-> "start"],
                           [analyzer |-> a, event |-> "return"]>>
    [] outcome = "connect" -> << >>
    [] outcome = "query" -> <<[analyzer |-> a, event |-> "start"]>>

\* key = (x.ticker, x.platform, x.tax_wrapper)
key_of(x) == <<x.ticker, x.platform, x.tax_wrapper>>

RECURSIVE perf_lookup(_, _, _)
\* perf_lookup[key] after the loop over perf_results: the last result with
\* that key, found from position n downwards; None when there is none.
perf_lookup(perf_results, key, n) ==
  IF n = 0 THEN [found |-> FALSE, at |-> 0]
  ELSE IF key_of(perf_results[n]) = key THEN [found |-> TRUE, at |-> n]
  ELSE perf_lookup(perf_results, key, n - 1)

\* The body of `for h in result.current_holdings:` for one holding.
merge_performance(h, perf_results) ==
  LET hit == perf_lookup(perf_results, key_of(h), Len(perf_results))
  IN IF ~hit.found THEN h
     ELSE LET pr == perf_results[hit.at]
          IN [h EXCEPT
                !.twr = pr.twr,
                !.mwr = pr.mwr,
                !.holding_period_days = pr.holding_period_days,
                !.benchmark =
                  [f \in BenchmarkFieldNames |->
                     LET b == CHOOSE i \in 1..Len(BenchmarkFields) :
                                BenchmarkFields[i].field = f
                     IN IF BenchmarkFields[b].ticker \in DOMAIN pr.benchmarks
                          THEN pr.benchmarks[BenchmarkFields[b].ticker]
                          ELSE h.benchmark[f]]]

\* ---- the inputs
RunKeys ==
  {[ticker |-> Ticker_VW, platform |-> "FIDELITY", tax_wrapper |-> "ISA"],
   [ticker |-> Ticker_GBX, platform |-> "INTERACTIVE_INVESTOR",
    tax_wrapper |-> "SIPP"]}

\* A HoldingAnalysis as CurrentHoldingsAnalyzer builds it: the performance
\* fields at their defaults.
NewHoldingAnalysis(k) ==
  [ticker |-> k.ticker, platform |-> k.platform, tax_wrapper |-> k.tax_wrapper,
   twr |-> None, mwr |-> None, holding_period_days |-> 0,
   benchmark |-> [f \in BenchmarkFieldNames |-> None]]

RunHoldingLists ==
  UNION {[1..n -> {NewHoldingAnalysis(k) : k \in RunKeys}] :
           n \in 0..MaxRunHoldings}

\* The benchmark dicts of a HoldingPerformance: no benchmark has prices, or
\* all five have, FTSE All-World with a return and the others without.
RunBenchmarks ==
  {[t \in {} |-> None],
   [t \in {BenchmarkFields[i].ticker : i \in 1..Len(BenchmarkFields)} |->
      IF t = "VWRL.L" THEN Some(5) ELSE None]}

RunPerformances ==
  {[ticker |-> k.ticker, platform |-> k.platform, tax_wrapper |-> k.tax_wrapper,
    twr |-> t, mwr |-> m, holding_period_days |-> 30, benchmarks |-> b] :
     k \in RunKeys, t \in {None, Some(7)}, m \in {None, Some(7)},
     b \in RunBenchmarks}

RunPerformanceLists ==
  UNION {[1..n -> RunPerformances] : n \in 0..MaxRunHoldings}

RunIdle ==
  /\ rpc = "idle"
  /\ conn_state = [c \in Connections |-> "none"]
  /\ run_log = << >>
  /\ run_current_holdings = << >>
  /\ returned_holdings = << >>

RunStart ==
  /\ rpc = "start"
  /\ conn_state = [c \in Connections |-> "none"]
  /\ run_log = << >>
  /\ run_current_holdings = << >>
  /\ returned_holdings = << >>

\* stats = get_transaction_stats(db_path), and the AnalysisResult built from
\* it.
GetTransactionStats ==
  /\ rpc = "start"
  /\ \E outcome \in Outcomes :
       /\ conn_state' = [conn_state EXCEPT !["stats"] = stats_connection(outcome)]
       /\ rpc' = IF outcome = "ok" THEN next_step(rpc) ELSE "raised"
  /\ UNCHANGED <<run_log, run_current_holdings, returned_holdings>>
  /\ UNCHANGED notRunVars

\* Blocks 1 to 4: the analyzer's results are assigned to fields of result.
RunLeafAnalyzer ==
  /\ rpc \in {"holding_period", "trading_frequency", "price_impact",
              "cross_reference"}
  /\ \E outcome \in Outcomes :
       /\ conn_state' = [conn_state EXCEPT ![rpc] = with_connection(outcome)]
       /\ run_log' = run_log \o analyze_events(rpc, outcome)
       /\ rpc' = IF outcome = "ok" THEN next_step(rpc) ELSE "raised"
  /\ UNCHANGED <<run_current_holdings, returned_holdings>>
  /\ UNCHANGED notRunVars

\* Block 5: result.current_holdings = holdings.
RunCurrentHoldings ==
  /\ rpc = "current_holdings"
  /\ \E outcome \in Outcomes, holdings \in RunHoldingLists :
       /\ conn_state' = [conn_state EXCEPT ![rpc] = with_connection(outcome)]
       /\ run_log' = run_log \o analyze_events(rpc, outcome)
       /\ rpc' = IF outcome = "ok" THEN next_step(rpc) ELSE "raised"
       /\ run_current_holdings' =
            IF outcome = "ok" THEN holdings ELSE run_current_holdings
       /\ returned_holdings' =
            IF outcome = "ok" THEN holdings ELSE returned_holdings
  /\ UNCHANGED notRunVars

\* Block 6: the performance results are merged into the objects of
\* result.current_holdings.
RunPerformance ==
  /\ rpc = "performance"
  /\ \E outcome \in Outcomes, perf_results \in RunPerformanceLists :
       /\ conn_state' = [conn_state EXCEPT ![rpc] = with_connection(outcome)]
       /\ run_log' = run_log \o analyze_events(rpc, outcome)
       /\ rpc' = IF outcome = "ok" THEN next_step(rpc) ELSE "raised"
       /\ run_current_holdings' =
            IF outcome = "ok"
              THEN [i \in 1..Len(run_current_holdings) |->
                      merge_performance(run_current_holdings[i], perf_results)]
              ELSE run_current_holdings
  /\ UNCHANGED returned_holdings
  /\ UNCHANGED notRunVars

\* result.calculate_overall_confidence(); return result
RunOverallConfidence ==
  /\ rpc = "confidence"
  /\ run_log' = Append(run_log, [analyzer |-> "overall", event |-> "confidence"])
  /\ rpc' = next_step(rpc)
  /\ UNCHANGED <<conn_state, run_current_holdings, returned_holdings>>
  /\ UNCHANGED notRunVars

\* ======================================== performance.py: _calculate_mwr
\* Dates are whole years counted from an epoch, so years_from_start is a
\* whole number; values are in pounds.
MaxMwrTx == 2
MaxMwrYear == 2

\* datetime.now(), not before any date of the inputs.
MwrNow == MaxMwrYear

\* cf of one transaction: -abs(value) for a BUY, abs(value) otherwise.
cash_flow(txn) ==
  IF txn.transaction_type = "BUY" THEN 0 - Abs(txn.value) ELSE Abs(txn.value)

\* end_date: current_date parsed, datetime.now() when it cannot be parsed
\* (None: no price at all).
end_date(current_date) ==
  IF current_date.some THEN current_date.v ELSE MwrNow

\* cash_flows and dates, the current value appended as the last flow.
mwr_flows(transactions, current_value, current_date) ==
  [i \in 1..Len(transactions) |->
     [cf |-> cash_flow(transactions[i]), date |-> transactions[i].date]]
  \o <<[cf |-> current_value, date |-> end_date(current_date)]>>

\* first_date = min(dates)
first_date(flows) ==
  CHOOSE d \in {flows[i].date : i \in 1..Len(flows)} :
    \A i \in 1..Len(flows) : d <= flows[i].date

\* years_from_start of flow i.
years_of(flows, i) == flows[i].date - first_date(flows)

max_years(flows) ==
  CHOOSE y \in {years_of(flows, i) : i \in 1..Len(flows)} :
    \A i \in 1..Len(flows) : years_of(flows, i) <= y

RECURSIVE Pow(_, _)
Pow(b, e) == IF e = 0 THEN 1 ELSE b * Pow(b, e - 1)

RECURSIVE SumOver(_, _)
\* f[1] + ... + f[n]
SumOver(f, n) == IF n = 0 THEN 0 ELSE f[n] + SumOver(f, n - 1)

Sign(x) == IF x > 0 THEN 1 ELSE IF x < 0 THEN 0 - 1 ELSE 0

\* The sign of npv(-0.99): each flow is divided by 0.01 ** years, that is
\* multiplied by 100 ** years.
npv_sign_low(flows) ==
  Sign(SumOver([i \in 1..Len(flows) |->
                  flows[i].cf * Pow(100, years_of(flows, i))], Len(flows)))

\* The sign of npv(10.0): each flow is divided by 11 ** years; the sum is
\* taken over the common denominator 11 ** max_years.
npv_sign_high(flows) ==
  Sign(SumOver([i \in 1..Len(flows) |->
                  flows[i].cf * Pow(11, max_years(flows) - years_of(flows, i))],
               Len(flows)))

\* brentq(npv, -0.99, 10.0, maxiter=1000): ValueError when npv has the same
\* sign at both ends of the bracket, a root otherwise.
brentq(flows) ==
  IF npv_sign_low(flows) * npv_sign_high(flows) > 0 THEN "ValueError"
  ELSE "root"

\* What npv(rate) can do for the rates a solver hands it: rate <= -1 gives
\* inf; otherwise (1 + rate) ** years raises OverflowError when the power
\* leaves the float range, which takes years > 1 (rate itself is a float),
\* and the division raises ZeroDivisionError when the power underflows to
\* 0.0, which takes years > 20 (1 + rate is at least 2 ** -53).
npv_errors(flows) ==
  (IF max_years(flows) > 1 THEN {"OverflowError"} ELSE {})
  \cup (IF max_years(flows) > 20 THEN {"ZeroDivisionError"} ELSE {})

\* npv does not depend on the rate: every flow later than the first date is 0.
npv_is_constant(flows) ==
  \A i \in 1..Len(flows) : years_of(flows, i) > 0 => flows[i].cf = 0

\* newton(npv, 0.1, maxiter=1000), the secant iteration. On a constant npv
\* its first two values are equal and it raises RuntimeError at once.
\* Otherwise its iterates are not kept in any bracket, and it ends with a
\* root, with RuntimeError (no convergence) or with whatever npv raises on
\* an iterate.
newton(flows) ==
  IF npv_is_constant(flows) THEN {"RuntimeError"}
  ELSE {"root", "RuntimeError"} \cup npv_errors(flows)

\* The try/except of _calculate_mwr: `first` is how brentq ended, `second`
\* how newton ends if it is called; only ValueError and RuntimeError are
\* caught.
mwr_after_solvers(first, second) ==
  IF first = "root" THEN [kind |-> "number", solvers |-> <<"brentq">>]
  ELSE IF first \in {"ValueError", "RuntimeError"}
    THEN IF second = "root"
           THEN [kind |-> "number", solvers |-> <<"brentq", "newton">>]
         ELSE IF second \in {"ValueError", "RuntimeError"}
           THEN [kind |-> "None", solvers |-> <<"brentq", "newton">>]
         ELSE [kind |-> "raises", solvers |-> <<"brentq", "newton">>]
  ELSE [kind |-> "raises", solvers |-> <<"brentq">>]

\* ---- the inputs
MwrTxChoices ==
  [date : 0..MaxMwrYear, transaction_type : {"BUY", "SELL"},
   value : {100, 300}]

\* The transactions of one holding, in date order as _get_transactions
\* returns them.
MwrTxLists ==
  {l \in UNION {[1..n -> MwrTxChoices] : n \in 0..MaxMwrTx} :
     \A i \in 1..Len(l) : \A j \in 1..Len(l) : i < j => l[i].date <= l[j].date}

MwrIdle ==
  /\ mpc = "idle"
  /\ mwr_in = [transactions |-> << >>, current_value |-> 0, current_date |-> None]
  /\ mwr_out = [kind |-> "None", solvers |-> << >>]

MwrStart ==
  /\ mpc = "start"
  /\ mwr_in \in [transactions : MwrTxLists, current_value : {0, 50, 300},
                 current_date : {None} \cup {Some(d) : d \in 0..MaxMwrYear}]
  /\ mwr_out = [kind |-> "None", solvers |-> << >>]

\* mwr = self._calculate_mwr(transactions, current_value, current_date)
CalculateMwr ==
  /\ mpc = "start"
  /\ mpc' = "done"
  /\ IF Len(mwr_in.transactions) = 0
       THEN mwr_out' = [kind |-> "None", solvers |-> << >>]
       ELSE LET flows == mwr_flows(mwr_in.transactions, mwr_in.current_value,
                                   mwr_in.current_date)
            IN \E second \in newton(flows) :
                 mwr_out' = mwr_after_solvers(brentq(flows), second)
  /\ UNCHANGED mwr_in
  /\ UNCHANGED notMwrVars

\* ========================= core/database.py: insert_transaction(s)
MaxStored == 3
MaxBatch == 2

\* The reference column: NULL (reference None) or a text.
NullReference == [null |-> TRUE, text |-> ""]
Reference(s) == [null |-> FALSE, text |-> s]

\* The columns of UNIQUE(platform, date, fund_name, transaction_type, value,
\* reference) but the reference.
same_unique_columns(r, t) ==
  /\ r.platform = t.platform
  /\ r.date = t.date
  /\ r.fund_name = t.fund_name
  /\ r.transaction_type = t.transaction_type
  /\ r.value = t.value

\* The UNIQUE constraint of SQLite: a row conflicts with a stored one when
\* all six columns are equal, and a NULL is equal to nothing, another NULL
\* included.
unique_conflict(r, t) ==
  /\ same_unique_columns(r, t)
  /\ ~r.reference.null
  /\ ~t.reference.null
  /\ r.reference.text = t.reference.text

\* insert_transaction on a table: the INSERT raises IntegrityError on a
\* conflict and False is returned; otherwise the row is added and True is
\* returned.
insert_transaction(table, t) ==
  IF \E i \in 1..Len(table) : unique_conflict(table[i], t)
    THEN [table |-> table, returned |-> FALSE]
    ELSE [table |-> Append(table, t), returned |-> TRUE]

RECURSIVE insert_transactions(_, _, _)
\* insert_transactions: the first n transactions of the batch, one
\* insert_transaction each, counted as inserted or as duplicates.
insert_transactions(table, transactions, n) ==
  IF n = 0 THEN [table |-> table, inserted |-> 0, duplicates |-> 0]
  ELSE LET before == insert_transactions(table, transactions, n - 1)
           one == insert_transaction(before.table, transactions[n])
       IN [table |-> one.table,
           inserted |-> before.inserted + (IF one.returned THEN 1 ELSE 0),
           duplicates |-> before.duplicates + (IF one.returned THEN 0 ELSE 1)]

\* ---- the inputs
StoreTx(units, reference) ==
  [platform |-> "FIDELITY", tax_wrapper |-> "ISA", date |-> 1,
   fund_name |-> Fund_AB, transaction_type |-> "BUY", units |-> units,
   price_per_unit |-> 100, value |-> 100, reference |-> reference]

\* A transaction with a reference, the same with other units, and one
\* without a reference.
StoreTxChoices ==
  {StoreTx(1, Reference("REF-001")), StoreTx(2, Reference("REF-001")),
   StoreTx(1, NullReference)}

StoreBatches == UNION {[1..n -> StoreTxChoices] : n \in 0..MaxBatch}

NoCall == [kind |-> "none", batch |-> << >>, before |-> << >>,
           inserted |-> 0, duplicates |-> 0]

StoreIdle ==
  /\ spc = "idle"
  /\ stored_tx = << >>
  /\ store_last = NoCall
  /\ store_prev = NoCall

\* An empty database after create_tables.
StoreStart ==
  /\ spc = "open"
  /\ stored_tx = << >>
  /\ store_last = NoCall
  /\ store_prev = NoCall

\* db.insert_transaction(transaction)
InsertTransaction ==
  /\ spc = "open"
  /\ Len(stored_tx) < MaxStored
  /\ \E t \in StoreTxChoices :
       LET r == insert_transaction(stored_tx, t)
       IN /\ stored_tx' = r.table
          /\ store_last' = [kind |-> "one", batch |-> <<t>>, before |-> stored_tx,
                            inserted |-> IF r.returned THEN 1 ELSE 0,
                            duplicates |-> IF r.returned THEN 0 ELSE 1]
  /\ store_prev' = store_last
  /\ UNCHANGED spc
  /\ UNCHANGED notStoreVars

\* db.insert_transactions(transactions)
InsertTransactions ==
  /\ spc = "open"
  /\ \E transactions \in StoreBatches :
       /\ Len(stored_tx) + Len(transactions) <= MaxStored
       /\ LET r == insert_transactions(stored_tx, transactions, Len(transactions))
          IN /\ stored_tx' = r.table
             /\ store_last' = [kind |-> "batch", batch |-> transactions,
                               before |-> stored_tx, inserted |-> r.inserted,
                               duplicates |-> r.duplicates]
  /\ store_prev' = store_last
  /\ UNCHANGED spc
  /\ UNCHANGED notStoreVars

\* ============================== scripts/update_prices.py: PriceUpdater
\* Dates are day numbers, day 1 a Monday.
MaxRecords == 2

UpdDates == {1, 2}

\* insert_price_history on a table: UNIQUE(date, ticker) makes the INSERT
\* fail when the ticker already has a price on that date.
insert_price_history(table, record) ==
  IF \E r \in table : r.date = record.date /\ r.ticker = record.ticker
    THEN [table |-> table, returned |-> FALSE]
    ELSE [table |-> table \cup {[ticker |-> record.ticker, date |-> record.date,
                                 close_price |-> record.close_price]},
          returned |-> TRUE]

RECURSIVE insert_price_histories(_, _, _)
\* insert_price_histories: the first n records, one insert_price_history each.
insert_price_histories(table, records, n) ==
  IF n = 0 THEN [table |-> table, inserted |-> 0, duplicates |-> 0]
  ELSE LET before == insert_price_histories(table, records, n - 1)
           one == insert_price_history(before.table, records[n])
       IN [table |-> one.table,
           inserted |-> before.inserted + (IF one.returned THEN 1 ELSE 0),
           duplicates |-> before.duplicates + (IF one.returned THEN 0 ELSE 1)]

\* A mutant of insert_prices: the dry_run flag is not looked at.
insert_prices_always(dry, table, records) ==
  IF Len(records) = 0
    THEN [table |-> table, inserted |-> 0, duplicates |-> Len(records)]
    ELSE insert_price_histories(table, records, Len(records))

\* PriceUpdater.insert_prices
insert_prices(dry, table, records) ==
  IF dry \/ Len(records) = 0
    THEN [table |-> table, inserted |-> 0, duplicates |-> Len(records)]
    ELSE insert_price_histories(table, records, Len(records))

\* get_trading_days: the weekdays from start_date to the end date.
get_trading_days(start_date, last_date) ==
  {d \in start_date..last_date : (d - 1) % 7 < 5}

\* find_missing_dates: the trading days without a price of the ticker.
find_missing_dates(table, ticker, min_date, max_date) ==
  get_trading_days(min_date, max_date)
    \ {r.date : r \in {x \in table : x.ticker = ticker}}

\* parse_price_data: one record per row of the frame whose Close is above 0.
parse_price_data(data, ticker) ==
  LET keep == SelectSeq(data, LAMBDA row : row.Close > 0)
  IN [i \in 1..Len(keep) |->
        [date |-> keep[i].date, ticker |-> ticker, close_price |-> keep[i].Close]]

NewUpdateResult(ticker) ==
  [ticker |-> ticker, records_fetched |-> 0, records_inserted |-> 0,
   records_skipped |-> 0, missing_dates_found |-> 0, success |-> TRUE]

\* PriceUpdater.update_ticker: the UpdateResult and the table it leaves.
\* `data` is the frame download_prices returns, empty when the download
\* failed.
update_ticker(dry, table, ticker, min_date, max_date, backfill, data) ==
  LET missing == find_missing_dates(table, ticker, min_date, max_date)
      found == IF backfill THEN max_date - min_date ELSE Cardinality(missing)
      result == [NewUpdateResult(ticker) EXCEPT !.missing_dates_found = found]
      records == parse_price_data(data, ticker)
      fetched == [result EXCEPT !.records_fetched = Len(records)]
      done == insert_prices(dry, table, records)
  IN IF ~backfill /\ missing = {} THEN [table |-> table, result |-> result]
     ELSE IF Len(data) = 0
       THEN [table |-> table, result |-> [result EXCEPT !.success = FALSE]]
     ELSE IF dry
       THEN [table |-> table,
             result |-> [fetched EXCEPT !.records_skipped = Len(records)]]
     ELSE [table |-> done.table,
           result |-> [fetched EXCEPT !.records_inserted = done.inserted,
                                      !.records_skipped = done.duplicates]]

\* ---- the inputs
UpdRecords ==
  [date : UpdDates, ticker : {Ticker_VW}, close_price : {100, 101}]

UpdRecordLists == UNION {[1..n -> UpdRecords] : n \in 0..MaxRecords}

\* The frames yfinance can return for the range: a Close, above 0 or not, for
\* some of the days, in date order.
UpdFrames ==
  {f \in UNION {[1..n -> [date : UpdDates, Close : {100, 0 - 1}]] :
                  n \in 0..MaxRecords} :
     \A i \in 1..Len(f) : \A j \in 1..Len(f) : i < j => f[i].date < f[j].date}

NoUpdate ==
  [kind |-> "none", given |-> 0, inserted |-> 0, skipped |-> 0,
   result |-> NewUpdateResult(Ticker_VW)]

UpdIdle ==
  /\ upc = "idle"
  /\ dry_run = FALSE
  /\ update_last = NoUpdate
  /\ ph_initial = {}

\* A connected updater, with or without dry_run, on a database with or
\* without a price.
UpdStart ==
  /\ upc = "connected"
  /\ dry_run \in BOOLEAN
  /\ update_last = NoUpdate
  /\ tx_table = << >>
  /\ ftm_table = {}
  /\ price_history \in {{}, {[ticker |-> Ticker_VW, date |-> 1, close_price |-> 100]}}
  /\ ph_initial = price_history

\* updater.insert_prices(records)
InsertPrices ==
  /\ upc = "connected"
  /\ \E records \in UpdRecordLists :
       LET r == insert_prices(dry_run, price_history, records)
       IN /\ price_history' = r.table
          /\ update_last' = [kind |-> "insert_prices", given |-> Len(records),
                             inserted |-> r.inserted, skipped |-> r.duplicates,
                             result |-> NewUpdateResult(Ticker_VW)]
  /\ UNCHANGED <<upc, dry_run, ph_initial>>
  /\ UNCHANGED notUpdVars

\* updater.update_ticker(ticker, fund_name, min_date, max_date, backfill)
UpdateTicker ==
  /\ upc = "connected"
  /\ \E backfill \in BOOLEAN, data \in UpdFrames :
       LET r == update_ticker(dry_run, price_history, Ticker_VW, 1, 2,
                              backfill, data)
       IN /\ price_history' = r.table
          /\ update_last' = [kind |-> "update_ticker", given |-> Len(data),
                             inserted |-> 0, skipped |-> 0, result |-> r.result]
  /\ UNCHANGED <<upc, dry_run, ph_initial>>
  /\ UNCHANGED notUpdVars

\* ======================================== performance.py: _calculate_twr
\* Dates are day numbers, units whole, prices and values in pounds; a growth
\* factor is a fraction.
MaxTwrTx == 2

TwrDates == {1, 2, 3}

\* sorted(prices.keys()): the dates that have a price.
price_dates(prices) == {d \in DOMAIN prices : prices[d] > 0}

\* "Get price on transaction date (or closest before)": the latest date with
\* a price that is not after txn_date; None when every price is later.
price_on_date(prices, txn_date) ==
  LET before == {d \in price_dates(prices) : d <= txn_date}
  IN IF before = {} THEN None
     ELSE Some(prices[CHOOSE d \in before : \A e \in before : e <= d])

\* The body of `for txn in txns:` on the loop's variables.
twr_iteration(st, txn, prices) ==
  LET p == price_on_date(prices, txn.date)
      held == IF txn.transaction_type = "BUY" THEN st.units_held + txn.units
              ELSE st.units_held - txn.units
  IN IF ~p.some THEN st
     ELSE LET value_before == st.units_held * p.v
          IN [units_held |-> held,
              prev_value |-> held * p.v,
              sub_period_returns |->
                IF st.prev_value > 0 /\ value_before > 0
                  THEN Append(st.sub_period_returns,
                              Frac(value_before, st.prev_value))
                  ELSE st.sub_period_returns]

RECURSIVE chain(_)
\* twr = 1.0; for r in sub_period_returns: twr *= r
chain(rs) ==
  IF Len(rs) = 0 THEN Frac(1, 1)
  ELSE LET rest == chain(Tail(rs))
       IN Frac(rs[1].n * rest.n, rs[1].d * rest.d)

\* What _calculate_twr returns after the loop: None without a sub-period
\* return; otherwise the chained growth 1 + twr, annualised over the days
\* from the first transaction to the last price date when these are more
\* than 0 (the power is left to `days`).
twr_result(st, txns, prices, current_value) ==
  LET final == IF st.prev_value > 0 /\ current_value > 0
                 THEN Append(st.sub_period_returns,
                             Frac(current_value, st.prev_value))
                 ELSE st.sub_period_returns
      last_price_date == CHOOSE d \in price_dates(prices) :
                           \A e \in price_dates(prices) : e <= d
      days == last_price_date - txns[1].date
  IN IF Len(final) = 0 THEN [some |-> FALSE, growth |-> Frac(1, 1), days |-> 0]
     ELSE [some |-> TRUE, growth |-> chain(final),
           days |-> IF days > 0 THEN days ELSE 0]

\* ---- the inputs
TwrTxChoices ==
  [date : TwrDates, transaction_type : {"BUY", "SELL"}, units : {1, 2}]

\* The transactions of one holding, in date order as _get_transactions
\* returns them.
TwrTxLists ==
  {l \in UNION {[1..n -> TwrTxChoices] : n \in 0..MaxTwrTx} :
     \A i \in 1..Len(l) : \A j \in 1..Len(l) : i < j => l[i].date <= l[j].date}

\* Price series: per date a close, 0 standing for no row.
TwrPriceSeries ==
  {[d \in TwrDates |-> IF d = 1 THEN a ELSE IF d = 2 THEN b ELSE c] :
     a \in {0, 10}, b \in {0, 10, 20}, c \in {0, 20}}

TwrLoopStart == [units_held |-> 0, prev_value |-> 0, sub_period_returns |-> << >>]

NoTwr == [some |-> FALSE, growth |-> Frac(1, 1), days |-> 0]

TwrIdle ==
  /\ tpc = "idle"
  /\ twr_in = [transactions |-> << >>, prices |-> [d \in TwrDates |-> 0],
               current_value |-> 0]
  /\ twr_i = 0
  /\ twr_loop = TwrLoopStart
  /\ twr_out = NoTwr

TwrStart ==
  /\ tpc = "start"
  /\ twr_in \in [transactions : TwrTxLists, prices : TwrPriceSeries,
                 current_value : {0, 40}]
  /\ twr_i = 0
  /\ twr_loop = TwrLoopStart
  /\ twr_out = NoTwr

\* The sorted transactions the loop walks.
twr_txns == by_date(twr_in.transactions)

\* Entry: None without transactions or without prices.
TwrEnter ==
  /\ tpc = "start"
  /\ tpc' = IF Len(twr_in.transactions) = 0 \/ price_dates(twr_in.prices) = {}
              THEN "done" ELSE "loop"
  /\ UNCHANGED <<twr_in, twr_i, twr_loop, twr_out>>
  /\ UNCHANGED notTwrVars

\* One iteration of `for txn in txns:`.
TwrIteration ==
  /\ tpc = "loop"
  /\ twr_i < Len(twr_txns)
  /\ twr_i' = twr_i + 1
  /\ twr_loop' = twr_iteration(twr_loop, twr_txns[twr_i + 1], twr_in.prices)
  /\ UNCHANGED <<tpc, twr_in, twr_out>>
  /\ UNCHANGED notTwrVars

\* After the loop: the final sub-period and the value returned.
TwrReturn ==
  /\ tpc = "loop"
  /\ twr_i = Len(twr_txns)
  /\ twr_out' = twr_result(twr_loop, twr_txns, twr_in.prices, twr_in.current_value)
  /\ tpc' = "done"
  /\ UNCHANGED <<twr_in, twr_i, twr_loop>>
  /\ UNCHANGED notTwrVars

\* =============================================== performance.py: analyze
\* Values in pounds, returns in whole percent, dates as day ordinals.
MaxPerfHoldings == 2

\* for wrapper in ["ISA", "GIA", "SIPP"]
AggregatedWrappers == <<"ISA", "GIA", "SIPP">>

\* models.py TaxWrapper: the wrappers a transaction or a snapshot entry names.
TaxWrapper == {"ISA", "SIPP", "GIA", "OTHER"}

NoAverage == [some |-> FALSE, v |-> Frac(0, 1)]

\* What the database holds for one snapshot entry: no transactions, or their
\* first date, BUY and SELL value totals, and the returns _calculate_twr and
\* _calculate_mwr give for them.
PerfHistories ==
  { [num_transactions |-> 0, first_transaction |-> 0, total_invested |-> 0,
     total_withdrawn |-> 0, twr |-> None, mwr |-> None],
    [num_transactions |-> 1, first_transaction |-> 1, total_invested |-> 100,
     total_withdrawn |-> 0, twr |-> Some(20), mwr |-> Some(10)],
    [num_transactions |-> 2, first_transaction |-> 2, total_invested |-> 200,
     total_withdrawn |-> 50, twr |-> Some(0 - 10), mwr |-> None],
    [num_transactions |-> 1, first_transaction |-> 2, total_invested |-> 100,
     total_withdrawn |-> 0, twr |-> None, mwr |-> None] }

\* One entry of the current-holdings snapshot with the last price of its
\* ticker (0: no price) and its transactions.
PerfHoldings ==
  [tax_wrapper : TaxWrapper \ {"GIA"}, units : {1, 2},
   current_price : {0, 10}, history : PerfHistories]

PerfHoldingLists == UNION {[1..n -> PerfHoldings] : n \in 0..MaxPerfHoldings}

\* The HoldingPerformance appended for one snapshot entry.
HoldingPerformance(h) ==
  [tax_wrapper |-> h.tax_wrapper,
   current_units |-> h.units,
   current_value |-> h.units * h.current_price,
   total_invested |-> h.history.total_invested,
   total_withdrawn |-> h.history.total_withdrawn,
   twr |-> h.history.twr,
   mwr |-> h.history.mwr,
   first_transaction |-> h.history.first_transaction,
   num_transactions |-> h.history.num_transactions]

RECURSIVE performance_results(_)
\* The per-holding loop: an entry without transactions is skipped.
performance_results(hs) ==
  IF Len(hs) = 0 THEN << >>
  ELSE IF Head(hs).history.num_transactions = 0 THEN performance_results(Tail(hs))
       ELSE <<HoldingPerformance(Head(hs))>> \o performance_results(Tail(hs))

RECURSIVE sum_field(_, _)
\* sum(h.<field> for h in wrapper_holdings)
sum_field(hs, field) ==
  IF Len(hs) = 0 THEN 0 ELSE Head(hs)[field] + sum_field(Tail(hs), field)

RECURSIVE weighted_returns(_, _)
\* sum(x * w for x, w in valid): over the holdings whose <field> is present.
weighted_returns(hs, field) ==
  IF Len(hs) = 0 THEN 0
  ELSE (IF Head(hs)[field].some THEN Head(hs)[field].v * Head(hs).current_value
        ELSE 0)
       + weighted_returns(Tail(hs), field)

RECURSIVE return_weight(_, _)
\* sum(w for _, w in valid)
return_weight(hs, field) ==
  IF Len(hs) = 0 THEN 0
  ELSE (IF Head(hs)[field].some THEN Head(hs).current_value ELSE 0)
       + return_weight(Tail(hs), field)

\* Value-weighted average of twr or mwr; None without a valid return or with
\* total weight 0.
weighted_average(hs, field) ==
  IF return_weight(hs, field) > 0
    THEN [some |-> TRUE,
          v |-> Frac(weighted_returns(hs, field), return_weight(hs, field))]
    ELSE NoAverage

RECURSIVE weighted_ordinals(_)
\* sum(dt.toordinal() * w for dt, w in weighted_dates)
weighted_ordinals(hs) ==
  IF Len(hs) = 0 THEN 0
  ELSE (IF Head(hs).current_value > 0
          THEN Head(hs).first_transaction * Head(hs).current_value ELSE 0)
       + weighted_ordinals(Tail(hs))

\* Start of the wrapper's benchmark window: int() of the value-weighted mean
\* ordinal of the first transactions; None without weight (benchmarks {}).
avg_start_date(hs) ==
  LET positive(h) == h.current_value > 0
      weight == sum_field(SelectSeq(hs, positive), "current_value")
  IN IF weight > 0 THEN Some(weighted_ordinals(hs) \div weight) ELSE None

\* [r for r in results if r.tax_wrapper == wrapper]
wrapper_holdings(rs, wrapper) ==
  LET in_wrapper(r) == r.tax_wrapper = wrapper
  IN SelectSeq(rs, in_wrapper)

WrapperPerformance(wrapper, hs) ==
  [wrapper |-> wrapper,
   current_value |-> sum_field(hs, "current_value"),
   total_invested |-> sum_field(hs, "total_invested"),
   total_withdrawn |-> sum_field(hs, "total_withdrawn"),
   twr |-> weighted_average(hs, "twr"),
   mwr |-> weighted_average(hs, "mwr"),
   num_holdings |-> Len(hs),
   benchmark_start |-> avg_start_date(hs)]

\* "Aggregate by wrapper": an entry for each of the three listed wrappers
\* that has a result.
aggregate_by_wrapper(rs) ==
  LET listed == {AggregatedWrappers[i] : i \in 1..Len(AggregatedWrappers)}
      present == {w \in listed : Len(wrapper_holdings(rs, w)) > 0}
  IN [w \in present |-> WrapperPerformance(w, wrapper_holdings(rs, w))]

PerfIdle ==
  /\ ppc = "idle"
  /\ perf_in = << >>
  /\ analyze_results = << >>
  /\ wrapper_summary = [w \in {} |-> NoAverage]

PerfStart ==
  /\ ppc = "start"
  /\ perf_in \in PerfHoldingLists
  /\ analyze_results = << >>
  /\ wrapper_summary = [w \in {} |-> NoAverage]

\* PerformanceAnalyzer.analyze(): returns results, wrapper_summary.
PerfAnalyze ==
  /\ ppc = "start"
  /\ analyze_results' = performance_results(perf_in)
  /\ wrapper_summary' = aggregate_by_wrapper(performance_results(perf_in))
  /\ ppc' = "done"
  /\ UNCHANGED perf_in
  /\ UNCHANGED notPerfVars

LaterIdle ==
  RunIdle /\ MwrIdle /\ StoreIdle /\ UpdIdle /\ TwrIdle /\ PerfIdle

vars == <<analyzerVars, laterVars>>

\* The Holding Period analyzer alone: no cross-reference run.
Init ==
  FifoInit /\ XrefIdle /\ DbIdle /\ ImpactIdle /\ HoldingsIdle /\ ConfIdle /\ LaterIdle

Next == FifoNext

Spec == Init /\ [][Next]_vars

\* The Cross-Reference analyzer alone: one analyze() over each input.
XrefInit ==
  FifoInit /\ XrefStart /\ DbIdle /\ ImpactIdle /\ HoldingsIdle /\ ConfIdle /\ LaterIdle

XrefNext == Analyze

SpecXref == XrefInit /\ [][XrefNext]_vars

\* The Price Impact analyzer alone: one analyze() over each database.
ImpactInit ==
  FifoInit /\ XrefIdle /\ ImpactStart /\ HoldingsIdle /\ ConfIdle /\ LaterIdle

ImpactNext == PriceImpactAnalyze

SpecImpact == ImpactInit /\ [][ImpactNext]_vars

\* The Current Holdings analyzer alone: one analyze() over each database and
\* snapshot.
HoldingsInit ==
  FifoInit /\ XrefIdle /\ ImpactIdle /\ HoldingsStart /\ ConfIdle /\ LaterIdle

HoldingsNext == HoldingsAnalyze

SpecHoldings == HoldingsInit /\ [][HoldingsNext]_vars

\* The confidence aggregator alone: one call on each AnalysisResult.
ConfInit ==
  FifoInit /\ XrefIdle /\ DbIdle /\ ImpactIdle /\ HoldingsIdle /\ ConfStart
  /\ LaterIdle

ConfNext == CalculateOverallConfidence

SpecConf == ConfInit /\ [][ConfNext]_vars

\* One run of run_analysis, each step ending well or raising.
RunInit ==
  /\ AnalyzersIdle /\ RunStart /\ MwrIdle /\ StoreIdle /\ UpdIdle /\ TwrIdle
  /\ PerfIdle

RunNext ==
  \/ GetTransactionStats
  \/ RunLeafAnalyzer
  \/ RunCurrentHoldings
  \/ RunPerformance
  \/ RunOverallConfidence

SpecRun == RunInit /\ [][RunNext]_vars

\* The money-weighted return alone: one call on each input.
MwrInit ==
  /\ AnalyzersIdle /\ RunIdle /\ MwrStart /\ StoreIdle /\ UpdIdle /\ TwrIdle
  /\ PerfIdle

MwrNext == CalculateMwr

SpecMwr == MwrInit /\ [][MwrNext]_vars

\* The transactions table alone: any sequence of insert calls on an empty
\* database.
StoreInit ==
  /\ AnalyzersIdle /\ RunIdle /\ MwrIdle /\ StoreStart /\ UpdIdle /\ TwrIdle
  /\ PerfIdle

StoreNext == InsertTransaction \/ InsertTransactions

SpecStore == StoreInit /\ [][StoreNext]_vars

\* The price updater alone: any sequence of insert_prices and update_ticker
\* calls.
UpdInit ==
  /\ FifoInit /\ XrefIdle /\ ImpactIdle /\ HoldingsIdle /\ ConfIdle
  /\ RunIdle /\ MwrIdle /\ StoreIdle /\ UpdStart /\ TwrIdle /\ PerfIdle

UpdNext == InsertPrices \/ UpdateTicker

SpecUpd == UpdInit /\ [][UpdNext]_vars

\* The time-weighted return alone: one call on each input, an iteration of
\* its loop at a time.
TwrInit ==
  /\ AnalyzersIdle /\ RunIdle /\ MwrIdle /\ StoreIdle /\ UpdIdle /\ TwrStart
  /\ PerfIdle

TwrNext == TwrEnter \/ TwrIteration \/ TwrReturn

SpecTwr == TwrInit /\ [][TwrNext]_vars

\* The performance analysis alone: one analyze() on each snapshot.
PerfInit ==
  /\ AnalyzersIdle /\ RunIdle /\ MwrIdle /\ StoreIdle /\ UpdIdle /\ TwrIdle
  /\ PerfStart

PerfNext == PerfAnalyze

SpecPerf == PerfInit /\ [][PerfNext]_vars

\* ------------------------------------------------------------ properties
\* The results the last SELL emitted are results[FirstOwn..Len(results)].
FirstOwn == Len(ghost.pre_results) + 1

\* Units held by the queue when the last SELL began.
PreQueueUnits == SumRemaining(ghost.pre_lots, ghost.pre_head + 1, Len(ghost.pre_lots))

RECURSIVE SumConsumable(_, _, _)
\* Sum of remaining_units of the lots ls[from..to] that are not exhausted.
SumConsumable(ls, from, to) ==
  IF from > to THEN 0
  ELSE (IF ls[from].remaining_units > Tol THEN ls[from].remaining_units ELSE 0)
       + SumConsumable(ls, from + 1, to)

\* Units held by the non-exhausted lots of the queue when the last SELL began.
PreConsumable == SumConsumable(ghost.pre_lots, ghost.pre_head + 1, Len(ghost.pre_lots))

\* A SELL has just been processed to its end.
AfterSell == pc = "next" /\ tx.transaction_type = "SELL"

\* Sum of remaining units less (BUY units - SELL units).
Unconsumed == SumRemaining(lots, 1, Len(lots)) - (ghost.bought - ghost.sold)

\* C1 as stated: when no SELL exceeded the units available at its moment,
\* the remaining units of all lots equal BUY units minus SELL units to
\* within the tolerance 0.001.
C1_ConservationWithinTol ==
  (pc = "next" /\ ~ghost.overdrawn) => (Unconsumed >= 0 - Tol /\ Unconsumed <= Tol)

\* C1 as amended: when no SELL exceeded the units available at its moment,
\* the remaining units of all lots equal BUY units minus the units the
\* results report sold, exactly, and differ from BUY units minus SELL units
\* by at most 0.001 per transaction processed (never below).
C1_Conservation ==
  (pc = "next" /\ ~ghost.overdrawn) =>
    /\ SumRemaining(lots, 1, Len(lots)) = ghost.bought - SumSold(results, 1, Len(results))
    /\ Unconsumed >= 0
    /\ Unconsumed <= Tol * processed

\* Two lots were consumed by SELLs within the available units, and a residue
\* at the tolerance was left unsold.
C1_Witness ==
  /\ pc = "next" /\ ~ghost.overdrawn
  /\ Len(results) >= 2
  /\ Unconsumed = Tol

\* C2: FIFO order. In every step, a lot loses units only while every older
\* lot holds at most 0.001 units; a step takes units from one lot exactly when
\* it emits one result, whose units_sold are the units taken and whose
\* holding_days are the SELL date minus that lot's buy date.
C2_Fifo ==
  [][ /\ \A j \in 1..Len(lots) :
           lots'[j].remaining_units < lots[j].remaining_units =>
             /\ \A i \in 1..(j - 1) : lots[i].remaining_units <= Tol
             /\ \A i \in 1..Len(lots) :
                  i # j => lots'[i].remaining_units = lots[i].remaining_units
             /\ Len(results') = Len(results) + 1
             /\ results'[Len(results')].units_sold
                  = lots[j].remaining_units - lots'[j].remaining_units
             /\ results'[Len(results')].sell_date = tx.date
             /\ results'[Len(results')].holding_days = tx.date - lots[j].buy_date
      /\ Len(results') > Len(results) =>
           \E j \in 1..Len(lots) :
             lots'[j].remaining_units < lots[j].remaining_units
    ]_vars

\* A younger lot has been consumed after the older one was exhausted, some
\* days after it was bought.
C2_Witness ==
  /\ Len(lots) >= 2
  /\ lots[1].remaining_units <= Tol
  /\ lots[2].remaining_units < lots[2].units
  /\ \E k \in 1..Len(results) :
       /\ results[k].buy_date = lots[2].buy_date
       /\ results[k].holding_days > 0
       /\ ghost.origin[k].lot = 2

\* C3: the lot invariant. After every step each lot has
\* 0 <= remaining_units <= units, and no lot's remaining_units has grown.
C3_LotInvariant ==
  [][ \A i \in 1..Len(lots') :
        /\ lots'[i].remaining_units >= 0
        /\ lots'[i].remaining_units <= lots'[i].units
        /\ i <= Len(lots) => lots'[i].remaining_units <= lots[i].remaining_units
    ]_vars

\* A lot that is partly consumed and not exhausted.
C3_Witness ==
  \E i \in 1..Len(lots) :
    /\ lots[i].remaining_units > Tol
    /\ lots[i].remaining_units < lots[i].units

\* C4 as stated: after a SELL that asked for more than the queue held (by
\* more than 0.001), exactly one issue was added, naming the key, the date
\* and SELL units minus units matched; the last result of that SELL has
\* confidence 0.7, its other results 1.0, and every earlier result is as it
\* was.
C4_UnmatchedSell ==
  (AfterSell /\ tx.units > PreQueueUnits + Tol) =>
    /\ Len(issues) = Len(ghost.pre_issues) + 1
    /\ SubSeq(issues, 1, Len(ghost.pre_issues)) = ghost.pre_issues
    /\ issues[Len(issues)] =
         [fund_key |-> fund_key, sell_date |-> tx.date,
          units |-> tx.units - SumSold(results, FirstOwn, Len(results))]
    /\ Len(results) >= FirstOwn => results[Len(results)].confidence = ConfUnmatched
    /\ \A k \in FirstOwn..(Len(results) - 1) : results[k].confidence = ConfFull
    /\ \A k \in 1..(FirstOwn - 1) : results[k] = ghost.pre_results[k]

\* C5 as stated: a SELL that found the queue empty leaves the list of results
\* exactly as it was before that SELL.
C5_EmptyQueueSell ==
  (AfterSell /\ ghost.pre_head = Len(ghost.pre_lots)) => results = ghost.pre_results

\* The per-step part of C6: a step that emits a result emits one, for the
\* front lot, with units_sold = min(remaining units of the lot, units still
\* to sell) and gain_loss = units_sold * p - units_sold * (that lot's price).
C6_Step ==
  /\ Len(results') <= Len(results) + 1
  /\ Len(results') = Len(results) + 1 =>
       LET r == results'[Len(results')]
           lot == lots[head + 1]
       IN /\ r.units_sold = Min(lot.remaining_units, units_to_sell)
          /\ r.gain_loss = r.units_sold * tx.price_per_unit
                             - r.units_sold * lot.price_per_unit
          /\ lots'[head + 1].remaining_units = lot.remaining_units - r.units_sold
          /\ units_to_sell' = units_to_sell - r.units_sold
          /\ \A k \in FirstOwn..Len(results) :
               ghost.origin[k].lot # head + 1

\* The end of a SELL as C6 states it: the units_sold of its results sum to
\* min(u, units in the queue); a SELL the front lot covers alone emitted
\* exactly one result and left the lot the difference.
C6_SellAsStated ==
  AfterSell =>
    /\ SumSold(results, FirstOwn, Len(results)) = Min(tx.units, PreQueueUnits)
    /\ (ghost.pre_head < Len(ghost.pre_lots)
        /\ ghost.pre_lots[ghost.pre_head + 1].remaining_units >= tx.units) =>
         /\ Len(results) = FirstOwn
         /\ results[FirstOwn].units_sold = tx.units
         /\ lots[ghost.pre_head + 1].remaining_units
              = ghost.pre_lots[ghost.pre_head + 1].remaining_units - tx.units

\* The end of a SELL as amended: the units_sold sum to min(u, units in the
\* non-exhausted lots of the queue) less at most 0.001; a SELL of more than
\* 0.001 units that the front lot covers alone emitted exactly one result.
C6_SellAmended ==
  AfterSell =>
    /\ SumSold(results, FirstOwn, Len(results)) <= Min(tx.units, PreConsumable)
    /\ SumSold(results, FirstOwn, Len(results)) >= Min(tx.units, PreConsumable) - Tol
    /\ (ghost.pre_head < Len(ghost.pre_lots)
        /\ tx.units > Tol
        /\ ghost.pre_lots[ghost.pre_head + 1].remaining_units >= tx.units) =>
         /\ Len(results) = FirstOwn
         /\ results[FirstOwn].units_sold = tx.units
         /\ lots[ghost.pre_head + 1].remaining_units
              = ghost.pre_lots[ghost.pre_head + 1].remaining_units - tx.units

\* C6 as stated: one result per lot units are taken from, each with
\* units_sold = min(lot's remaining units, units still to sell) and the
\* stated gain_loss; the units_sold of a SELL sum to min(u, units available
\* in the queue); a SELL the front lot covers alone emits exactly one result.
C6_ResultsAsStated == [][C6_Step /\ C6_SellAsStated']_vars

\* C6 as amended: as stated, but the units_sold of a SELL sum to min(u,
\* units in the queue's non-exhausted lots) less at most 0.001, and the
\* single-result case is for a SELL of more than 0.001 units.
C6_Results == [][C6_Step /\ C6_SellAmended']_vars

\* A SELL took units from two lots and left a residue of its units unsold,
\* though the queue still held units.
C6_Witness ==
  /\ AfterSell
  /\ Len(results) >= FirstOwn + 1
  /\ SumSold(results, FirstOwn, Len(results)) < tx.units
  /\ head < Len(lots)

\* ------------------------------------------- the same machine, many dates
CatNext ==
  \/ \E u \in CatBuyUnits, gap \in CatGaps : Buy(u, 10, gap)
  \/ \E u \in CatSellUnits, gap \in CatGaps : SellBegin(u, 12, gap)
  \/ PopExhausted
  \/ ConsumeLot
  \/ SellEnd

SpecCat == Init /\ [][CatNext]_vars

\* The same machine with one price and one date, run to the end: the
\* analyzer is sequential code, so a step that can be taken is taken.
TermNext ==
  \/ \E u \in Units : Buy(u, 10, 0)
  \/ \E u \in Units : SellBegin(u, 12, 0)
  \/ PopExhausted
  \/ ConsumeLot
  \/ SellEnd

SpecTerm == Init /\ [][TermNext]_vars /\ WF_vars(TermNext)

\* The categories as C7 states them.
stated_category(d) ==
  IF d < 30 THEN "VERY_SHORT_TERM"
  ELSE IF 30 <= d /\ d <= 89 THEN "SHORT_TERM"
  ELSE IF 90 <= d /\ d <= 364 THEN "MEDIUM_TERM"
  ELSE "LONG_TERM"

\* C7: the category of every HoldingPeriodResult is the one stated for its
\* holding_days: VERY_SHORT_TERM below 30, SHORT_TERM for 30..89, MEDIUM_TERM
\* for 90..364, LONG_TERM from 365 (also after the result was rebuilt with
\* confidence 0.7), and holding_days is the SELL date minus the buy date.
C7_Category ==
  \A k \in 1..Len(results) :
    /\ results[k].holding_days = results[k].sell_date - results[k].buy_date
    /\ results[k].category = stated_category(results[k].holding_days)

\* Results on both sides of the last boundary, one of them rebuilt with
\* confidence 0.7.
C7_Witness ==
  /\ \E k \in 1..Len(results) :
       results[k].holding_days = 365 /\ results[k].category = "LONG_TERM"
  /\ \E k \in 1..Len(results) :
       /\ results[k].holding_days = 364 /\ results[k].category = "MEDIUM_TERM"
       /\ results[k].confidence = ConfUnmatched

\* ------------------------------------------- cross-reference properties
\* The (fund, platform, wrapper) entry of a row.
entry(f) == <<f.fund_name, f.platform, f.tax_wrapper>>

\* The matches analyze returned.
Returned == Range(verified) \cup Range(unsure)

\* Match m pairs the entries of rows a and b.
Covers(m, a, b) ==
  LET ma == <<m.fund_a, m.platform_a, m.wrapper_a>>
      mb == <<m.fund_b, m.platform_b, m.wrapper_b>>
  IN (ma = entry(a) /\ mb = entry(b)) \/ (ma = entry(b) /\ mb = entry(a))

SharesTicker(a, b) == ticker_of(a) # "" /\ ticker_of(a) = ticker_of(b)
SharesSedol(a, b) == sedol_of(a) # "" /\ sedol_of(a) = sedol_of(b)
SharesIsin(a, b) == isin_of(a) # "" /\ isin_of(a) = isin_of(b)

\* C8: no match analyze returns, from any of the four passes, pairs two
\* entries that have both the same platform and the same tax wrapper.
C8_NoSamePosition ==
  xpc = "done" =>
    /\ Returned = Range(all_matches)
    /\ \A m \in Returned :
         ~(m.platform_a = m.platform_b /\ m.wrapper_a = m.wrapper_b)

\* Two different funds on one platform and wrapper share a ticker, and
\* matches were returned, none for them.
C8_Witness ==
  /\ xpc = "done"
  /\ Returned # {}
  /\ \E i, j \in 1..Len(funds) :
       /\ funds[i].fund_name # funds[j].fund_name
       /\ same_position(funds[i], funds[j])
       /\ SharesTicker(funds[i], funds[j])

\* C9: two entries on different wrappers that share a ticker and an ISIN get
\* a match with confidence 1.00 and match_type "ticker+isin"; two entries
\* that share only the ticker get (unless on the same platform and wrapper)
\* a ticker match, and every ticker match of theirs has confidence 0.95 and
\* match_type "ticker".
C9_TickerIsin ==
  xpc = "done" =>
    \A i, j \in 1..Len(funds) :
      (i < j /\ SharesTicker(funds[i], funds[j])) =>
        /\ (SharesIsin(funds[i], funds[j])
            /\ funds[i].tax_wrapper # funds[j].tax_wrapper) =>
             \E m \in Returned :
               /\ Covers(m, funds[i], funds[j])
               /\ m.confidence = 100
               /\ m.match_type = "ticker+isin"
        /\ ~SharesIsin(funds[i], funds[j]) =>
             /\ ~same_position(funds[i], funds[j]) =>
                  \E m \in Returned :
                    Covers(m, funds[i], funds[j]) /\ m.match_type = "ticker"
             /\ \A m \in Returned :
                  (Covers(m, funds[i], funds[j])
                   /\ m.match_type \in {"ticker", "ticker+isin"}) =>
                    m.confidence = 95 /\ m.match_type = "ticker"

\* One pair matched on ticker and ISIN and another on the ticker alone.
C9_Witness ==
  /\ xpc = "done"
  /\ \E m \in Range(verified) : m.match_type = "ticker+isin" /\ m.confidence = 100
  /\ \E m \in Range(verified) : m.match_type = "ticker" /\ m.confidence = 95

\* C10 as stated: every pair of distinct entries that shares a ticker, SEDOL
\* or ISIN and is not on the same platform and wrapper is covered by at
\* least one returned match.
C10_Completeness ==
  xpc = "done" =>
    \A i, j \in 1..Len(funds) :
      (/\ i < j
       /\ entry(funds[i]) # entry(funds[j])
       /\ ~same_position(funds[i], funds[j])
       /\ \/ SharesTicker(funds[i], funds[j])
          \/ SharesSedol(funds[i], funds[j])
          \/ SharesIsin(funds[i], funds[j])) =>
        \E m \in Returned : Covers(m, funds[i], funds[j])

\* The match types of the three identifier-table passes.
IdMatchTypes == {"ticker+isin", "sedol", "ticker", "isin"}

\* The highest of the stated tiers a pair qualifies for: ticker+ISIN 1.00,
\* SEDOL 0.98, ticker only 0.95, ISIN only 0.92 (0 when it qualifies for none).
HighestTier(a, b) ==
  IF SharesTicker(a, b) /\ SharesIsin(a, b) THEN 100
  ELSE IF SharesSedol(a, b) THEN 98
  ELSE IF SharesTicker(a, b) THEN 95
  ELSE IF SharesIsin(a, b) THEN 92
  ELSE 0

\* The pair shares at least two kinds of identifier.
SeveralTiers(a, b) ==
  \/ SharesTicker(a, b) /\ SharesSedol(a, b)
  \/ SharesTicker(a, b) /\ SharesIsin(a, b)
  \/ SharesSedol(a, b) /\ SharesIsin(a, b)

\* C11 as stated: for every pair of distinct entries (not on the same
\* platform and wrapper) that qualifies for several identifier tiers, the
\* identifier-table passes emit exactly one match for the pair and its
\* confidence is the highest tier the pair qualifies for.
C11_HighestTierWins ==
  xpc = "done" =>
    \A i, j \in 1..Len(funds) :
      (/\ i < j
       /\ entry(funds[i]) # entry(funds[j])
       /\ ~same_position(funds[i], funds[j])
       /\ SeveralTiers(funds[i], funds[j])) =>
        LET ks == {k \in 1..Len(all_matches) :
                     /\ all_matches[k].match_type \in IdMatchTypes
                     /\ Covers(all_matches[k], funds[i], funds[j])}
        IN /\ Cardinality(ks) = 1
           /\ \A k \in ks :
                all_matches[k].confidence = HighestTier(funds[i], funds[j])

\* The number of positions k at which sequence seq holds m.
Occurrences(seq, m) == Cardinality({k \in 1..Len(seq) : seq[k] = m})

\* Every match analyze produced is in exactly one of the two returned lists
\* (as often as it was produced): in verified iff its confidence is >= 0.90.
Partitioned ==
  \A m \in Range(all_matches) \cup Returned :
    /\ Occurrences(verified, m) + Occurrences(unsure, m) = Occurrences(all_matches, m)
    /\ m.confidence >= 90 => Occurrences(unsure, m) = 0
    /\ m.confidence < 90 => Occurrences(verified, m) = 0

\* The fund names none of whose rows carries a ticker, a SEDOL or an ISIN.
NamesWithoutIdentifier ==
  {funds[i].fund_name : i \in 1..Len(funds)} \
  {funds[i].fund_name : i \in {j \in 1..Len(funds) :
      ticker_of(funds[j]) # "" \/ sedol_of(funds[j]) # "" \/ isin_of(funds[j]) # ""}}

\* C12 as stated: the matches are partitioned into verified (confidence
\* >= 0.90) and unsure, and the funds reported as without identifiers are
\* exactly the fund names that have no ticker, no SEDOL and no ISIN.
C12_VerifiedPartition ==
  xpc = "done" =>
    /\ Partitioned
    /\ funds_without_ids = NamesWithoutIdentifier

\* ---------------------------------------------- price-impact properties
\* The classification stated for a transaction type, an execution price e
\* and a market price m > 0: deviation (e - m) / m * 100 within +/-0.5 is
\* neutral; otherwise favorable for a BUY below or a SELL above the market.
stated_impact(transaction_type, e, m) ==
  IF (e - m) * 200 <= m /\ (m - e) * 200 <= m THEN "neutral"
  ELSE IF \/ transaction_type = "BUY" /\ e < m
          \/ transaction_type = "SELL" /\ e > m
    THEN "favorable"
  ELSE "unfavorable"

\* C13: every PriceImpactResult carries the classification stated for its
\* transaction type, execution price and (normalised) market price; a
\* deviation of 0% is neutral, a BUY 1% below market is favorable and a SELL
\* 1% below market is unfavorable.
C13_Classification ==
  ipc = "done" =>
    \A k \in 1..Len(impact_results) :
      LET r == impact_results[k]
          e == r.execution_price
          m == r.market_price
      IN /\ e > 0 /\ m > 0
         /\ r.transaction_type \in {"BUY", "SELL"}
         /\ r.classification = stated_impact(r.transaction_type, e, m)
         /\ e = m => r.classification = "neutral"
         /\ (m - e) * 100 = m =>
              r.classification =
                (IF r.transaction_type = "BUY" THEN "favorable" ELSE "unfavorable")

\* A BUY and a SELL both 1% below market, classified favorable and
\* unfavorable, and a result exactly 0.5% off the market classified neutral.
C13_Witness ==
  /\ ipc = "done"
  /\ \E k \in 1..Len(impact_results) :
       LET r == impact_results[k]
       IN /\ r.transaction_type = "BUY" /\ (r.market_price - r.execution_price) * 100 = r.market_price
          /\ r.classification = "favorable"
  /\ \E k \in 1..Len(impact_results) :
       LET r == impact_results[k]
       IN /\ r.transaction_type = "SELL"
          /\ Abs(r.market_price - r.execution_price) * 200 = r.market_price
          /\ r.classification = "neutral"

\* The raw close price impact_results[k] was computed from.
RawClose(k) == impact_rows[k].market_price

\* C14 as stated: for a ticker ending in .L the market price is divided by
\* 100 whenever market_price / execution_price is in the closed range
\* [80, 120], and is unchanged otherwise and for every other ticker.
C14_NormalizeClosed ==
  ipc = "done" =>
    \A k \in 1..Len(impact_results) :
      LET r == impact_results[k]
      IN IF /\ ends_with(r.ticker, <<".", "L">>)
            /\ 80 * r.execution_price <= RawClose(k)
            /\ RawClose(k) <= 120 * r.execution_price
           THEN r.market_price * 100 = RawClose(k)
           ELSE r.market_price = RawClose(k)

\* C14 as amended: the range is open: divided by 100 when the ratio is
\* strictly between 80 and 120, unchanged at exactly 80, at exactly 120,
\* outside the range, and for every ticker not ending in .L.
C14_Normalize ==
  ipc = "done" =>
    \A k \in 1..Len(impact_results) :
      LET r == impact_results[k]
      IN IF /\ ends_with(r.ticker, <<".", "L">>)
            /\ 80 * r.execution_price < RawClose(k)
            /\ RawClose(k) < 120 * r.execution_price
           THEN r.market_price * 100 = RawClose(k)
           ELSE r.market_price = RawClose(k)

\* A .L price just inside the range was divided by 100, and a price of
\* another ticker at ratio 100 was left as it was.
C14_Witness ==
  /\ ipc = "done"
  /\ \E k \in 1..Len(impact_results) :
       /\ impact_results[k].ticker = Ticker_VWL
       /\ RawClose(k) = 16000 /\ impact_results[k].execution_price = 199
       /\ impact_results[k].market_price = 160
  /\ \E k \in 1..Len(impact_results) :
       /\ impact_results[k].ticker = Ticker_VW
       /\ RawClose(k) = 100 * impact_results[k].execution_price
       /\ impact_results[k].market_price = RawClose(k)

\* The (transaction, mapping row) pairs of non-excluded BUY/SELL transactions
\* of a mapped fund with no close price for the ticker on the transaction's
\* own date.
MissingPairs ==
  {p \in (1..Len(tx_table)) \X ftm_table :
     /\ p[2].fund_name = tx_table[p[1]].fund_name
     /\ tx_table[p[1]].excluded = 0
     /\ tx_table[p[1]].transaction_type \in {"BUY", "SELL"}
     /\ ~\E r \in price_history :
          r.ticker = p[2].ticker /\ r.date = tx_table[p[1]].date}

\* C15: every result is of a transaction whose ticker has a close price on
\* exactly the transaction's date, and is computed from that price; every
\* non-excluded BUY/SELL transaction of a mapped fund without such a price
\* is counted in the missing total and has no result for that ticker.
C15_MissingPrices ==
  ipc = "done" =>
    /\ Len(impact_results) = Len(impact_rows)
    /\ \A k \in 1..Len(impact_results) :
         LET t == tx_table[impact_rows[k].id]
         IN /\ impact_results[k].date = t.date
            /\ impact_results[k].ticker = impact_rows[k].ticker
            /\ \E r \in price_history :
                 /\ r.ticker = impact_results[k].ticker
                 /\ r.date = t.date
                 /\ r.close_price = RawClose(k)
    /\ missing_count = Cardinality(MissingPairs)
    /\ \A p \in MissingPairs :
         ~\E k \in 1..Len(impact_rows) :
            impact_rows[k].id = p[1] /\ impact_rows[k].ticker = p[2].ticker

\* A transaction whose ticker has a price on another date only was counted
\* as missing, while another transaction got a result.
C15_Witness ==
  /\ ipc = "done"
  /\ missing_count >= 1
  /\ Len(impact_results) >= 1
  /\ \E p \in MissingPairs :
       \E r \in price_history :
         r.ticker = p[2].ticker /\ r.date # tx_table[p[1]].date

\* ------------------------------------------- current-holdings properties
\* The snapshot entries in the order of the results.
SnapshotEntries == entries_of(holdings_data)

\* Units held by the lots ls that hold more than 0.001.
Reconstructed(ls) ==
  LET live == {i \in 1..Len(ls) : ls[i].remaining > Tol}
      sum[S \in SUBSET live] ==
        IF S = {} THEN 0
        ELSE LET i == CHOOSE x \in S : TRUE
             IN ls[i].remaining + sum[S \ {i}]
  IN sum[live]

\* C16: for an entry with a market price and at least one matching
\* transaction the confidence is 0.7 if and only if the units reconstructed
\* from the remaining lots differ from the snapshot's units by more than 10%
\* of the snapshot's units, and 1.0 otherwise.
C16_Discrepancy ==
  hpc = "done" =>
    \A k \in 1..Len(holding_results) :
      (cost_ghost[k].called /\ Len(cost_ghost[k].matched) > 0) =>
        LET held == holding_results[k].units
            diff == Abs(Reconstructed(cost_ghost[k].lots) - held)
        IN IF diff * 10 > held
             THEN holding_results[k].confidence = 70
             ELSE holding_results[k].confidence = 100

\* One entry whose lots differ from the snapshot by exactly 10% (confidence
\* 1.0) and one whose lots differ by more (confidence 0.7).
C16_Witness ==
  /\ hpc = "done"
  /\ \E k \in 1..Len(holding_results) :
       /\ cost_ghost[k].called /\ Len(cost_ghost[k].matched) > 0
       /\ Abs(Reconstructed(cost_ghost[k].lots) - holding_results[k].units) * 10
            = holding_results[k].units
       /\ holding_results[k].confidence = 100
  /\ \E k \in 1..Len(holding_results) :
       /\ cost_ghost[k].called /\ Len(cost_ghost[k].matched) > 0
       /\ holding_results[k].confidence = 70

\* Neither the ticker mapping nor the fund-name fallback finds a non-excluded
\* BUY/SELL transaction of the entry's platform and wrapper.
NoMatchingTransaction(e) ==
  ~\E i \in 1..Len(tx_table) :
     /\ tx_table[i].excluded = 0
     /\ tx_table[i].transaction_type \in {"BUY", "SELL"}
     /\ tx_table[i].platform = platform_map[e.platform]
     /\ tx_table[i].tax_wrapper = e.tax_wrapper
     /\ \/ [fund_name |-> tx_table[i].fund_name, ticker |-> e.ticker] \in ftm_table
        \/ like_contains(tx_table[i].fund_name, e.fund_name)

\* There is one result per snapshot entry, in order, for that entry.
AllEntriesPresent ==
  /\ Len(holding_results) = Len(SnapshotEntries)
  /\ \A k \in 1..Len(holding_results) :
       /\ holding_results[k].ticker = SnapshotEntries[k].ticker
       /\ holding_results[k].platform = SnapshotEntries[k].platform
       /\ holding_results[k].tax_wrapper = SnapshotEntries[k].tax_wrapper
       /\ holding_results[k].units = SnapshotEntries[k].units

\* C17 as stated: every snapshot entry without a matching transaction has a
\* result with cost basis 0, confidence 0.5 and a non-empty note, and no
\* entry is dropped.
C17_NoTransactionsAsStated ==
  hpc = "done" =>
    /\ AllEntriesPresent
    /\ \A k \in 1..Len(holding_results) :
         NoMatchingTransaction(SnapshotEntries[k]) =>
           /\ holding_results[k].cost_basis = 0
           /\ holding_results[k].confidence = 50
           /\ holding_results[k].notes # ""

\* C17 as amended: every snapshot entry without a matching transaction has a
\* result with cost basis 0 and a non-empty note, with confidence 0.5 when
\* the entry has a market price and 0.3 when it has none; no entry is
\* dropped.
C17_NoTransactions ==
  hpc = "done" =>
    /\ AllEntriesPresent
    /\ \A k \in 1..Len(holding_results) :
         NoMatchingTransaction(SnapshotEntries[k]) =>
           /\ holding_results[k].cost_basis = 0
           /\ holding_results[k].notes # ""
           /\ holding_results[k].confidence =
                (IF get_latest_price(price_history, SnapshotEntries[k].ticker).some
                   THEN 50 ELSE 30)

\* An entry with a price and no matching transaction (while the table holds
\* transactions of another position) got confidence 0.5, beside an entry
\* with transactions.
C17_Witness ==
  /\ hpc = "done"
  /\ Len(tx_table) > 0
  /\ \E k \in 1..Len(holding_results) :
       /\ NoMatchingTransaction(SnapshotEntries[k])
       /\ holding_results[k].current_value > 0
       /\ holding_results[k].confidence = 50
  /\ \E k \in 1..Len(holding_results) :
       ~NoMatchingTransaction(SnapshotEntries[k])

\* The entry's ticker has no close price, neither verbatim nor with .L.
NoPriceAtAll(e) ==
  ~\E r \in price_history :
     r.ticker = e.ticker \/ r.ticker = e.ticker \o <<".", "L">>

\* C18: every snapshot entry whose ticker has no price at all has a result
\* with current value 0, confidence 0.3 and a note, and is counted in
\* holdings_without_prices, the number of results without a price.
C18_NoPrice ==
  hpc = "done" =>
    /\ \A k \in 1..Len(holding_results) :
         NoPriceAtAll(SnapshotEntries[k]) =>
           /\ holding_results[k].current_value = 0
           /\ holding_results[k].current_price = 0
           /\ holding_results[k].confidence = 30
           /\ holding_results[k].notes # ""
           /\ holding_results[k].price_date = 0
    /\ holdings_without_prices =
         Cardinality({k \in 1..Len(holding_results) :
                        holding_results[k].price_date = 0})
    /\ holdings_without_prices >=
         Cardinality({k \in 1..Len(holding_results) :
                        NoPriceAtAll(SnapshotEntries[k])})
    /\ holdings_with_prices + holdings_without_prices = Len(holding_results)

\* Of two tickers one has no price at all and was counted, and the other was
\* priced from its .L quote.
C18_Witness ==
  /\ hpc = "done"
  /\ holdings_without_prices >= 1
  /\ \E k \in 1..Len(holding_results) :
       /\ NoPriceAtAll(SnapshotEntries[k])
       /\ holding_results[k].confidence = 30
       /\ Len(cost_ghost[k].matched) > 0
  /\ \E k \in 1..Len(holding_results) :
       /\ holding_results[k].ticker = Ticker_VW
       /\ holding_results[k].current_price = 6

\* ------------------------------------------------ cost basis and the ledger
\* The lots of the Cost-Basis analyzer's queue after the transactions this
\* key has had so far.
CostBasisLots == fifo_lots(ghost.history, 1, << >>)

\* The unexhausted lots of a queue as <<remaining units, price>>, in order.
LiveCostLots ==
  LET live == SelectSeq(CostBasisLots, LAMBDA l : l.remaining > Tol)
  IN [i \in 1..Len(live) |-> <<live[i].remaining, live[i].price>>]

LiveLedgerLots ==
  LET live == SelectSeq(lot_queue, LAMBDA l : l.remaining_units > Tol)
  IN [i \in 1..Len(live) |-> <<live[i].remaining_units, live[i].price_per_unit>>]

RECURSIVE LotsValue(_)
\* Sum of remaining units times price.
LotsValue(ps) ==
  IF Len(ps) = 0 THEN 0 ELSE ps[1][1] * ps[1][2] + LotsValue(Tail(ps))

\* C19 as stated: after every transaction of a date-ordered BUY/SELL
\* sequence the lots left in the Cost-Basis analyzer's queue (remaining units
\* and prices) are the unexhausted lots left in the Holding Period
\* analyzer's queue, and the cost basis is the sum of remaining units times
\* price over those lots.
C19_SameFifo ==
  pc = "next" =>
    /\ LiveCostLots = LiveLedgerLots
    /\ lots_cost(CostBasisLots) = LotsValue(LiveLedgerLots)

\* --------------------------------------------- overall-confidence property
\* Number of results of a component, 1 for none (a factor that changes
\* nothing), and its weight in tenths, 0 when it has no results.
CountOr1(xs) == IF Len(xs) = 0 THEN 1 ELSE Len(xs)
WeightOf(xs, w) == IF Len(xs) = 0 THEN 0 ELSE w

C21_NoMutation ==
  run_current_holdings = returned_holdings

\* Position in run_log of an event, 0 when it is not there.
LogIndex(a, e) ==
  IF \E i \in 1..Len(run_log) : run_log[i] = [analyzer |-> a, event |-> e]
    THEN CHOOSE i \in 1..Len(run_log) : run_log[i] = [analyzer |-> a, event |-> e]
    ELSE 0

\* C22: the Performance analyzer's analyze() starts only after the Current
\* Holdings analyzer's analyze() has returned, and the overall confidence is
\* computed only after every analyzer's analyze() has returned.
C22_RunOrder ==
  /\ LogIndex("performance", "start") > 0 =>
       /\ LogIndex("current_holdings", "return") > 0
       /\ LogIndex("current_holdings", "return") < LogIndex("performance", "start")
  /\ LogIndex("overall", "confidence") > 0 =>
       \A k \in 1..Len(Analyzers) :
         /\ LogIndex(Analyzers[k], "return") > 0
         /\ LogIndex(Analyzers[k], "return") < LogIndex("overall", "confidence")

\* A run that went through: the Performance analyzer has run and the overall
\* confidence has been computed.
C22_Witness ==
  /\ rpc = "returned"
  /\ LogIndex("performance", "start") > 0
  /\ LogIndex("overall", "confidence") = Len(run_log)

\* C23: when run_analysis has returned or raised, no connection opened during
\* the run is still open, whichever step failed.
C23_ConnectionsClosed ==
  rpc \in {"returned", "raised"} =>
    \A c \in Connections : conn_state[c] # "open"

AlreadyStored(table, t) ==
  \E i \in 1..Len(table) :
    /\ same_unique_columns(table[i], t)
    /\ table[i].reference = t.reference

\* C25: insert_transaction returns False and leaves the table unchanged when
\* a transaction with the same platform, date, fund name, type, value and
\* reference is already stored, and otherwise returns True and adds exactly
\* one row; insert_transactions returns (inserted, duplicates) with
\* inserted + duplicates = batch length and inserted = number of rows added.
C25_DuplicateInsert ==
  /\ store_last.kind = "one" =>
       IF AlreadyStored(store_last.before, store_last.batch[1])
         THEN store_last.inserted = 0 /\ stored_tx = store_last.before
         ELSE /\ store_last.inserted = 1
              /\ stored_tx = Append(store_last.before, store_last.batch[1])
  /\ store_last.kind = "batch" =>
       /\ store_last.inserted + store_last.duplicates = Len(store_last.batch)
       /\ store_last.inserted = Len(stored_tx) - Len(store_last.before)

\* C30: a second insert_transactions with the same batch, with or without
\* references, leaves the table as the first call left it and reports
\* inserted = 0 and duplicates = batch length.
C30_ReimportIdempotent ==
  (/\ store_last.kind = "batch"
   /\ store_prev.kind = "batch"
   /\ store_last.batch = store_prev.batch) =>
    /\ stored_tx = store_last.before
    /\ store_last.inserted = 0
    /\ store_last.duplicates = Len(store_last.batch)

\* ------------------------------------------------------ price-updater property
\* C26: with dry_run set, no sequence of insert_prices and update_ticker
\* calls changes the price_history table; insert_prices returns
\* (0, number of records) and every UpdateResult has records_inserted = 0.
C26_DryRunWritesNothing ==
  (upc = "connected" /\ dry_run) =>
    /\ price_history = ph_initial
    /\ update_last.kind = "insert_prices" =>
         update_last.inserted = 0 /\ update_last.skipped = update_last.given
    /\ update_last.kind = "update_ticker" =>
         update_last.result.records_inserted = 0

\* A dry run in which update_ticker has fetched a record for a day the table
\* has no price for.
C26_Witness ==
  /\ upc = "connected"
  /\ dry_run
  /\ update_last.kind = "update_ticker"
  /\ update_last.result.records_fetched > 0
  /\ update_last.result.records_skipped = update_last.result.records_fetched
  /\ find_missing_dates(price_history, Ticker_VW, 1, 2) # {}

\* ------------------------------------------------------ termination property
RECURSIVE sell_loop_ends(_, _, _)
\* The Cost-Basis SELL loop started on ls and uts ends within `fuel`
\* iterations, each of which removes a lot or brings units_to_sell down to
\* at most 0.001.
sell_loop_ends(ls, uts, fuel) ==
  IF ~(uts > Tol /\ Len(ls) > 0) THEN TRUE
  ELSE IF fuel = 0 THEN FALSE
  ELSE LET s == sell_step(ls, uts)
       IN /\ Len(s.lots) < Len(ls) \/ s.units_to_sell <= Tol
          /\ sell_loop_ends(s.lots, s.units_to_sell, fuel - 1)

\* C27: the SELL loops finish. Every SELL loop of the Holding Period
\* analyzer that has begun reaches its end; each of its iterations removes a
\* lot from the queue or brings units_to_sell down to at most 0.001; and the
\* Cost-Basis loop for the same SELL on the same history ends within one
\* iteration per lot and one more, each iteration doing the same.
C27_FifoTerminates ==
  /\ (pc = "while") ~> (pc = "next")
  /\ [][ /\ (pc = "while" /\ pc' = "while") =>
              (head' = head + 1 \/ units_to_sell' <= Tol)
         /\ (pc = "next" /\ pc' = "while") =>
              sell_loop_ends(CostBasisLots, tx'.units, Len(CostBasisLots) + 1)
     ]_vars

\* A SELL that took several iterations has ended: two lots were removed, one
\* of them without units, and the queue still holds a lot.
C27_Witness ==
  /\ pc = "next"
  /\ tx.transaction_type = "SELL"
  /\ head = 2
  /\ Len(lots) = 3
  /\ lots[1].units = 0
  /\ Len(results) >= 1

\* ---------------------------------------------------- time-weighted return
RECURSIVE NetUnits(_, _)
\* Sum of BUY units minus sum of SELL units over the first n transactions.
NetUnits(txns, n) ==
  IF n = 0 THEN 0
  ELSE NetUnits(txns, n - 1)
       + (IF txns[n].transaction_type = "BUY" THEN txns[n].units
          ELSE 0 - txns[n].units)

\* C28: while _calculate_twr walks the date-sorted transactions, the units it
\* holds after each cash flow are the BUY units minus the SELL units of all
\* transactions up to and including that flow, and the value just after a
\* flow is that net unit count times the price on or before the flow date,
\* also when early transactions are dated before the first price.
C28_TwrUnits ==
  (tpc = "loop" /\ twr_i >= 1) =>
    /\ twr_loop.units_held = NetUnits(twr_txns, twr_i)
    /\ price_on_date(twr_in.prices, twr_txns[twr_i].date).some =>
         twr_loop.prev_value
           = NetUnits(twr_txns, twr_i)
             * price_on_date(twr_in.prices, twr_txns[twr_i].date).v

\* ------------------------------------------------------ wrapper aggregates
RECURSIVE SumSummaries(_, _, _)
\* Sum of <field> over the wrapper summaries of the wrappers in ws.
SumSummaries(summary, ws, field) ==
  IF ws = {} THEN 0
  ELSE LET w == CHOOSE x \in ws : TRUE
       IN summary[w][field] + SumSummaries(summary, ws \ {w}, field)

\* C29: after analyze(), the num_holdings of the wrapper summaries sum to the
\* number of holding results and their current_value to the total current
\* value of the results, whatever tax wrappers the snapshot names.
C29_WrappersCoverHoldings ==
  ppc = "done" =>
    /\ SumSummaries(wrapper_summary, DOMAIN wrapper_summary, "num_holdings")
         = Len(analyze_results)
    /\ SumSummaries(wrapper_summary, DOMAIN wrapper_summary, "current_value")
         = sum_field(analyze_results, "current_value")

====
